---- MODULE Spec2Model ----
(***************************************************************************)
(* A model of plox, a tree-walking Lox interpreter written in Python:      *)
(* Scanner (core/scanner.py), Parser (core/parser.py), Environment         *)
(* (runtime/environment.py) and Interpreter (core/interpreter.py).         *)
(*                                                                         *)
(* Python values are tagged tuples whose first element is the Python type: *)
(*   <<"None">>            None (Lox nil, and an absent initializer)       *)
(*   <<"bool", b>>         True / False                                    *)
(*   <<"float", n, d>>     the float n/d, in lowest terms, d > 0           *)
(*   <<"str", s>>          a string                                        *)
(* AST nodes are tuples whose first element is the node class, and a Token *)
(* is a record of its four fields.  The scanner's and the parser's cursors *)
(* keep Python's 0-based values; a TLA+ sequence is indexed from 1, so     *)
(* Python's seq[i] is seq[i + 1] here.                                     *)
(***************************************************************************)
EXTENDS Integers, Sequences, FiniteSets, TLC

VARIABLES
    scanner,      \* the Scanner object and the progress of scan_tokens
    parser,       \* the Parser object and the progress of parse
    interpreter,  \* the Interpreter object: environment, and the arena envs
    call,         \* the running interpret(stmts) call
    stdout        \* what print() has written, one entry per call

vars == <<scanner, parser, interpreter, call, stdout>>

(***************************************************************************)
(* Bounds of the model.                                                    *)
(***************************************************************************)
\* the longest generated statement list given to interpret
MaxStmts == 3

\* the longest generated token list (before its EOF) given to the parser
MaxTokens == 4

\* the longest generated source given to the scanner
MaxSource == 4

\* the most Environment objects a client of the class constructs
MaxScopes == 2

(***************************************************************************)
(* Values                                                                  *)
(***************************************************************************)
None == <<"None">>

Bool(b) == <<"bool", b>>

Str(s) == <<"str", s>>

Abs(n) == IF n < 0 THEN 0 - n ELSE n

RECURSIVE GCD(_, _)
GCD(a, b) == IF b = 0 THEN a ELSE GCD(b, a % b)

\* The float n/d (d # 0), kept in lowest terms with a positive denominator.
Float(n, d) ==
    LET g == GCD(Abs(n), Abs(d))
        s == IF d < 0 THEN 0 - 1 ELSE 1
    IN  <<"float", (s * n) \div g, (s * d) \div g>>

TypeOf(v) == v[1]

\* floor(n / d) for d > 0
Floor(n, d) == n \div d

(***************************************************************************)
(* Tokens (core/token.py)                                                  *)
(***************************************************************************)
Token(type, lexeme, literal, line) ==
    [type |-> type, lexeme |-> lexeme, literal |-> literal, line |-> line]

\* A token as the tests build it: Token(type, lexeme), literal and line None.
Tok(type, lexeme) == Token(type, lexeme, None, 0)

\* self._type != self.lexeme compares a TokenType with a str, which are
\* never equal: the test is True for every token.
TypeIsNotLexeme(self) == TRUE

\* Token.__eq__(self, other) for a Token other
Token_eq(self, other) ==
    /\ self.type = other.type
    /\ self.lexeme = other.lexeme
    /\ self.literal = self.literal

\* Token.__ne__(self, other) for a Token other
Token_ne(self, other) ==
    /\ TypeIsNotLexeme(self)
    /\ self.lexeme # other.lexeme
    /\ self.literal # other.literal

(***************************************************************************)
(* AST nodes (ast/expr.py, ast/stmt.py)                                    *)
(***************************************************************************)
Literal(value) == <<"Literal", value>>
Grouping(expr) == <<"Grouping", expr>>
Unary(operator, right) == <<"Unary", operator, right>>
Binary(left, operator, right) == <<"Binary", left, operator, right>>
Logical(left, operator, right) == <<"Logical", left, operator, right>>
Conditional(condition, operator, left, right) ==
    <<"Conditional", condition, operator, left, right>>
Variable(name) == <<"Variable", name>>
Assign(name, value) == <<"Assign", name, value>>

ExpressionStmt(expr) == <<"ExpressionStmt", expr>>
PrintStmt(expr) == <<"Print", expr>>
Var(name, initializer) == <<"Var", name, initializer>>
Block(stmts) == <<"Block", stmts>>
IfStmt(condition, then_branch, else_branch) ==
    <<"IfStmt", condition, then_branch, else_branch>>

(***************************************************************************)
(* Outcomes of a call: a normal return carrying a value, or an exception   *)
(* of class exc carrying a token and a message.  envs is the arena of      *)
(* Environment objects after the call.                                     *)
(***************************************************************************)
Return(value, envs) ==
    [exc |-> "none", value |-> value, envs |-> envs,
     token |-> Tok("EOF", ""), message |-> ""]

Raise(exc, token, message, envs) ==
    [exc |-> exc, value |-> None, envs |-> envs,
     token |-> token, message |-> message]

(***************************************************************************)
(* Environment (runtime/environment.py).  The Environment objects live in  *)
(* an arena envs; an object is named by its index, and enclosing = 0 is    *)
(* Python's None.                                                          *)
(***************************************************************************)
Environment(enclosing) == [enclosing |-> enclosing, values |-> <<>>]

\* A variant of define that writes the binding of the enclosing scope when
\* that scope binds the name; C20_DefineIsLocal does not hold of it.
define_outward(envs, e, name, value) ==
    IF envs[e].enclosing # 0 /\ name \in DOMAIN envs[envs[e].enclosing].values
    THEN [envs EXCEPT ![envs[e].enclosing].values = (name :> value) @@ @]
    ELSE [envs EXCEPT ![e].values = (name :> value) @@ @]

define(envs, e, name, value) ==
    [envs EXCEPT ![e].values = (name :> value) @@ @]

RECURSIVE get(_, _, _)

\* A variant of get that looks in the enclosing scope before its own, so
\* that an outer binding hides an inner one; C22_GetInnermost does not hold
\* of it.
get_outer_first(envs, e, name) ==
    IF envs[e].enclosing # 0 /\ get(envs, envs[e].enclosing, name).exc = "none"
    THEN get(envs, envs[e].enclosing, name)
    ELSE IF name.lexeme \in DOMAIN envs[e].values
         THEN Return(envs[e].values[name.lexeme], envs)
         ELSE Raise("UndefinedVariable", name, "Undefined variable", envs)

get(envs, e, name) ==
    IF name.lexeme \in DOMAIN envs[e].values
    THEN Return(envs[e].values[name.lexeme], envs)
    ELSE IF envs[e].enclosing # 0
         THEN get(envs, envs[e].enclosing, name)
         ELSE Raise("UndefinedVariable", name, "Undefined variable", envs)

RECURSIVE assign(_, _, _, _)

\* A variant of assign that binds the name in the outermost scope when no
\* scope of the chain binds it; C21_AssignInnermost does not hold of it.
assign_implicit(envs, e, name, value) ==
    IF name.lexeme \in DOMAIN envs[e].values
    THEN Return(None, [envs EXCEPT ![e].values = (name.lexeme :> value) @@ @])
    ELSE IF envs[e].enclosing # 0
         THEN assign(envs, envs[e].enclosing, name, value)
         ELSE Return(None, [envs EXCEPT ![e].values = (name.lexeme :> value) @@ @])

assign(envs, e, name, value) ==
    IF name.lexeme \in DOMAIN envs[e].values
    THEN Return(None, [envs EXCEPT ![e].values = (name.lexeme :> value) @@ @])
    ELSE IF envs[e].enclosing # 0
         THEN assign(envs, envs[e].enclosing, name, value)
         ELSE Raise("UndefinedVariable", name, "Undefined variable", envs)

(***************************************************************************)
(* Interpreter (core/interpreter.py)                                       *)
(***************************************************************************)
is_truthy(object) ==
    IF object = None THEN FALSE
    ELSE IF TypeOf(object) = "bool" THEN object[2]
    ELSE TRUE

\* type(a) == None compares a class with the None object, which is never
\* equal: both guards are False for every a and b.
TypeIsNone(a) == FALSE

is_equal(a, b) ==
    IF TypeIsNone(a) /\ TypeIsNone(b) THEN TRUE
    ELSE IF TypeIsNone(a) THEN FALSE
    ELSE IF TypeOf(a) = "str" /\ TypeOf(b) = "str" THEN a = b
    ELSE IF TypeOf(a) = "float" /\ TypeOf(b) = "float" THEN a = b
    ELSE IF TypeOf(a) = "bool" /\ TypeOf(b) = "bool" THEN a = b
    ELSE FALSE

\* check_num_operand / check_num_operands: TRUE when the check passes,
\* FALSE when it raises LoxRunTimeError.
check_num_operand(operand) == TypeOf(operand) = "float"

check_num_operands(left, right) ==
    TypeOf(left) = "float" /\ TypeOf(right) = "float"

\* Float arithmetic and comparison on n/d pairs.
FloatAdd(a, b) == Float(a[2] * b[3] + b[2] * a[3], a[3] * b[3])
FloatSub(a, b) == Float(a[2] * b[3] - b[2] * a[3], a[3] * b[3])
FloatMul(a, b) == Float(a[2] * b[2], a[3] * b[3])
FloatDiv(a, b) == Float(a[2] * b[3], a[3] * b[2])
\* Python's float %: a - b * floor(a / b)
FloatMod(a, b) ==
    LET q == FloatDiv(a, b)
    IN  FloatSub(a, FloatMul(b, Float(Floor(q[2], q[3]), 1)))
FloatLess(a, b) == a[2] * b[3] < b[2] * a[3]
FloatNeg(a) == Float(0 - a[2], a[3])

\* The value of a Binary node whose operands evaluated to left and right.
BinaryOp(operator, left, right, envs) ==
    LET t == operator.type
        bad == Raise("LoxRunTimeError", operator, "Operands must be numbers.", envs)
    IN  CASE t = "BANG_EQUAL" -> Return(Bool(~is_equal(left, right)), envs)
          [] t = "EQUAL_EQUAL" -> Return(Bool(is_equal(left, right)), envs)
          [] t = "GREATER" ->
               IF check_num_operands(left, right)
               THEN Return(Bool(FloatLess(right, left)), envs) ELSE bad
          [] t = "GREATER_EQUAL" ->
               IF check_num_operands(left, right)
               THEN Return(Bool(~FloatLess(left, right)), envs) ELSE bad
          [] t = "LESS" ->
               IF check_num_operands(left, right)
               THEN Return(Bool(FloatLess(left, right)), envs) ELSE bad
          [] t = "LESS_EQUAL" ->
               IF check_num_operands(left, right)
               THEN Return(Bool(~FloatLess(right, left)), envs) ELSE bad
          [] t = "MINUS" ->
               IF check_num_operands(left, right)
               THEN Return(FloatSub(left, right), envs) ELSE bad
          [] t = "PLUS" ->
               IF TypeOf(left) = "float" /\ TypeOf(right) = "float"
               THEN Return(FloatAdd(left, right), envs)
               ELSE IF TypeOf(left) = "str" /\ TypeOf(right) = "str"
               THEN Return(Str(left[2] \o right[2]), envs)
               ELSE Raise("LoxRunTimeError", operator,
                          "Operands must be two numbers or two strings.", envs)
          [] t = "SLASH" ->
               IF ~check_num_operands(left, right) THEN bad
               ELSE IF right = Float(0, 1)
               THEN Raise("LoxRunTimeError", operator, "Division by zero.", envs)
               ELSE Return(FloatDiv(left, right), envs)
          [] t = "MOD" ->
               IF ~check_num_operands(left, right) THEN bad
               ELSE IF right = Float(0, 1)
               THEN Raise("LoxRunTimeError", operator, "Division by zero.", envs)
               ELSE Return(FloatMod(left, right), envs)
          [] t = "STAR" ->
               IF check_num_operands(left, right)
               THEN Return(FloatMul(left, right), envs) ELSE bad
          [] OTHER -> Return(None, envs)

\* The second argument visit_Assign passes to Environment.assign for the
\* node expr whose value expression evaluated to value.
AssignedObject(expr, value) == expr[3]

\* r is the outcome of a call: an exception it raised propagates, and
\* otherwise the method goes on with K(r).
Propagate(r, K(_)) == IF r.exc # "none" THEN r ELSE K(r)

\* evaluate(expr) with self.environment = e: expr.accept(self) dispatches on
\* the node class to the visit_ method of that name.
RECURSIVE evaluate(_, _, _)

visit_Assign(expr, envs, e) ==
    Propagate(evaluate(expr[3], envs, e), LAMBDA v :
    Propagate(assign(v.envs, e, expr[2], AssignedObject(expr, v.value)), LAMBDA a :
    Return(v.value, a.envs)))

visit_Unary(expr, envs, e) ==
    Propagate(evaluate(expr[3], envs, e), LAMBDA r :
    CASE expr[2].type = "BANG" -> Return(Bool(~is_truthy(r.value)), r.envs)
      [] expr[2].type = "MINUS" ->
           IF check_num_operand(r.value)
           THEN Return(FloatNeg(r.value), r.envs)
           ELSE Raise("LoxRunTimeError", expr[2], "Operand must be a number.", r.envs)
      [] OTHER -> Return(None, r.envs))

\* A variant of visit_Binary in which operands of the wrong types give nil
\* and no error; C25_BinaryChecksOperandTypes does not hold of it.
visit_Binary_unchecked(expr, envs, e) ==
    Propagate(evaluate(expr[2], envs, e), LAMBDA l :
    Propagate(evaluate(expr[4], l.envs, e), LAMBDA r :
    IF check_num_operands(l.value, r.value)
           \/ expr[3].type \in {"BANG_EQUAL", "EQUAL_EQUAL"}
    THEN BinaryOp(expr[3], l.value, r.value, r.envs)
    ELSE Return(None, r.envs)))

\* A variant of visit_Binary in which / and % test the right operand for
\* zero before the types of the operands; C26_DivisionByZero does not hold
\* of it.
visit_Binary_zero_first(expr, envs, e) ==
    Propagate(evaluate(expr[2], envs, e), LAMBDA l :
    Propagate(evaluate(expr[4], l.envs, e), LAMBDA r :
    IF expr[3].type \in {"SLASH", "MOD"} /\ r.value = Float(0, 1)
    THEN Raise("LoxRunTimeError", expr[3], "Division by zero.", r.envs)
    ELSE BinaryOp(expr[3], l.value, r.value, r.envs)))

visit_Binary(expr, envs, e) ==
    Propagate(evaluate(expr[2], envs, e), LAMBDA l :
    Propagate(evaluate(expr[4], l.envs, e), LAMBDA r :
    BinaryOp(expr[3], l.value, r.value, r.envs)))

\* A variant of visit_Logical that evaluates the right operand before it
\* looks at the left one; C23_LogicalShortCircuits does not hold of it.
visit_Logical_eager(expr, envs, e) ==
    Propagate(evaluate(expr[2], envs, e), LAMBDA l :
    Propagate(evaluate(expr[4], l.envs, e), LAMBDA r :
    IF expr[3].type = "OR"
    THEN IF is_truthy(l.value) THEN Return(l.value, r.envs) ELSE r
    ELSE IF ~is_truthy(l.value) THEN Return(l.value, r.envs) ELSE r))

visit_Logical(expr, envs, e) ==
    Propagate(evaluate(expr[2], envs, e), LAMBDA l :
    IF expr[3].type = "OR"
    THEN IF is_truthy(l.value) THEN l ELSE evaluate(expr[4], l.envs, e)
    ELSE IF ~is_truthy(l.value) THEN l ELSE evaluate(expr[4], l.envs, e))

\* A variant of visit_Conditional that evaluates both branches and then
\* picks one; C24_ConditionalRunsOneBranch does not hold of it.
visit_Conditional_eager(expr, envs, e) ==
    Propagate(evaluate(expr[2], envs, e), LAMBDA c :
    Propagate(evaluate(expr[4], c.envs, e), LAMBDA a :
    Propagate(evaluate(expr[5], a.envs, e), LAMBDA b :
    IF is_truthy(c.value) THEN Return(a.value, b.envs) ELSE b)))

visit_Conditional(expr, envs, e) ==
    Propagate(evaluate(expr[2], envs, e), LAMBDA c :
    IF is_truthy(c.value)
    THEN evaluate(expr[4], c.envs, e)
    ELSE evaluate(expr[5], c.envs, e))

evaluate(expr, envs, e) ==
    CASE expr[1] = "Literal" -> Return(expr[2], envs)
      [] expr[1] = "Grouping" -> evaluate(expr[2], envs, e)
      [] expr[1] = "Variable" -> get(envs, e, expr[2])
      [] expr[1] = "Assign" -> visit_Assign(expr, envs, e)
      [] expr[1] = "Unary" -> visit_Unary(expr, envs, e)
      [] expr[1] = "Binary" -> visit_Binary(expr, envs, e)
      [] expr[1] = "Logical" -> visit_Logical(expr, envs, e)
      [] expr[1] = "Conditional" -> visit_Conditional(expr, envs, e)

\* str(value), as print() writes it.  A float keeps its tagged form, which
\* stands for Python's text of that float; an AST node prints its repr.
Stringify(value) ==
    CASE TypeOf(value) = "None" -> Str("None")
      [] TypeOf(value) = "bool" -> Str(IF value[2] THEN "True" ELSE "False")
      [] TypeOf(value) = "str" -> value
      [] TypeOf(value) = "float" -> value
      [] OTHER -> <<"repr", value>>

\* str(e) of a LoxRunTimeError, as interpret prints it.
ErrorReport(r) == <<"error", r.message, r.token.lexeme>>

Done(envs, out) ==
    [exc |-> "none", envs |-> envs, out |-> out,
     token |-> Tok("EOF", ""), message |-> ""]

Throw(r, out) ==
    [exc |-> r.exc, envs |-> r.envs, out |-> out,
     token |-> r.token, message |-> r.message]

\* Interpreter defines neither visit_Block nor visit_IfStmt: accept() of a
\* Block or an IfStmt reaches the abstract method of StmtVisitor.
visit_Block(stmt, envs, e, out) ==
    Throw(Raise("NotImplementedError", Tok("EOF", ""), "", envs), out)

visit_IfStmt(stmt, envs, e, out) ==
    Throw(Raise("NotImplementedError", Tok("EOF", ""), "", envs), out)

\* r is the outcome of evaluate() in a statement that has printed out: an
\* exception propagates, and otherwise the statement goes on with K(r).
OrThrow(r, out, K(_)) == IF r.exc # "none" THEN Throw(r, out) ELSE K(r)

visit_ExpressionStmt(stmt, envs, e, out) ==
    OrThrow(evaluate(stmt[2], envs, e), out, LAMBDA r : Done(r.envs, out))

visit_Print(stmt, envs, e, out) ==
    OrThrow(evaluate(stmt[2], envs, e), out, LAMBDA r :
        Done(r.envs, Append(out, Stringify(r.value))))

visit_Var(stmt, envs, e, out) ==
    IF stmt[3] # None
    THEN OrThrow(evaluate(stmt[3], envs, e), out, LAMBDA r :
             Done(define(r.envs, e, stmt[2].lexeme, r.value), out))
    ELSE Done(define(envs, e, stmt[2].lexeme, None), out)

\* execute(stmt): stmt.accept(self)
execute(stmt, envs, e, out) ==
    CASE stmt[1] = "ExpressionStmt" -> visit_ExpressionStmt(stmt, envs, e, out)
      [] stmt[1] = "Print" -> visit_Print(stmt, envs, e, out)
      [] stmt[1] = "Var" -> visit_Var(stmt, envs, e, out)
      [] stmt[1] = "Block" -> visit_Block(stmt, envs, e, out)
      [] stmt[1] = "IfStmt" -> visit_IfStmt(stmt, envs, e, out)

\* Interpreter.__init__: one global Environment, which is the current one.
\* The class leaves visit_Block and visit_IfStmt abstract, so Interpreter()
\* itself raises TypeError; the methods are followed on an instance of the
\* class whose two missing methods are those of StmtVisitor.
NewInterpreter == [environment |-> 1, envs |-> <<Environment(0)>>]

\* The state of an interpret(stmts) call: next is the 0-based index of the
\* statement the for loop takes next, status is "running", "returned" or
\* "raised" (an exception left interpret), exc the class of the exception
\* that ended the loop.
NewCall(stmts) ==
    [stmts |-> stmts, next |-> 0, status |-> "running", exc |-> "none"]

NoCall == [stmts |-> <<>>, next |-> 0, status |-> "idle", exc |-> "none"]

\* The except clause of interpret: the classes it catches.
Caught(exc) == exc = "LoxRunTimeError"

\* A variant of Abort in which the for loop goes on with the next statement
\* after an exception; C4_InOrderUntilError does not hold of it.
Abort_resume(c, exc) == [c EXCEPT !.next = @ + 1]

\* An exception of class exc leaves the for loop of the call c: the except
\* clause ends the call normally when it catches exc, and otherwise exc
\* leaves interpret.
Abort(c, exc) ==
    [c EXCEPT !.status = IF Caught(exc) THEN "returned" ELSE "raised",
              !.exc = exc]

\* One iteration of the for loop of interpret, with its try/except.
InterpretStmt ==
    /\ call.status = "running"
    /\ call.next < Len(call.stmts)
    /\ LET stmt == call.stmts[call.next + 1] IN
       IF stmt = None
       THEN /\ call' = [call EXCEPT !.next = @ + 1]
            /\ UNCHANGED <<interpreter, stdout>>
       ELSE \E r \in {execute(stmt, interpreter.envs, interpreter.environment, stdout)} :
                /\ interpreter' = [interpreter EXCEPT !.envs = r.envs]
                /\ IF r.exc = "none"
                   THEN /\ call' = [call EXCEPT !.next = @ + 1]
                        /\ stdout' = r.out
                   ELSE /\ call' = Abort(call, r.exc)
                        /\ stdout' = IF Caught(r.exc)
                                     THEN Append(r.out, ErrorReport(r))
                                     ELSE r.out
    /\ UNCHANGED <<scanner, parser>>

\* The for loop of interpret is exhausted: interpret returns.
InterpretReturn ==
    /\ call.status = "running"
    /\ call.next = Len(call.stmts)
    /\ call' = [call EXCEPT !.status = "returned"]
    /\ UNCHANGED <<scanner, parser, interpreter, stdout>>

(***************************************************************************)
(* The Environment class under a client that constructs environments and   *)
(* calls their methods in any order.  call is then the last call made: the *)
(* method op, the environment self it was made on, its arguments name and  *)
(* value, and of its outcome r the class exc of the exception it raised   *)
(* ("none" when it returned), the value result it returned and the token   *)
(* the exception carries.                                                  *)
(***************************************************************************)
EnvCall(op, self, name, value, r) ==
    [op |-> op, self |-> self, name |-> name, value |-> value,
     exc |-> r.exc, result |-> r.value, token |-> r.token]

\* No call made yet.
NoEnvCall == EnvCall("idle", 0, Tok("EOF", ""), None, Return(None, <<>>))

\* The names and the values of the client's calls.
EnvNames == {Tok("IDENTIFIER", "x"), Tok("IDENTIFIER", "y")}

EnvValues == {None, Float(1, 1)}

\* Environment(enclosing): a new object, enclosing an existing one.
EnvNew ==
    /\ Len(interpreter.envs) < MaxScopes
    /\ \E enclosing \in 1..Len(interpreter.envs) :
           /\ interpreter' = [interpreter EXCEPT
                                 !.envs = Append(@, Environment(enclosing))]
           /\ call' = EnvCall("Environment", Len(interpreter.envs) + 1,
                              Tok("EOF", ""), None, Return(None, <<>>))
    /\ UNCHANGED <<scanner, parser, stdout>>

\* self.define(name.lexeme, value)
EnvDefine ==
    /\ \E self \in 1..Len(interpreter.envs), name \in EnvNames, value \in EnvValues :
           /\ interpreter' = [interpreter EXCEPT
                                 !.envs = define(@, self, name.lexeme, value)]
           /\ call' = EnvCall("define", self, name, value, Return(None, <<>>))
    /\ UNCHANGED <<scanner, parser, stdout>>

\* self.assign(name, value)
EnvAssign ==
    /\ \E self \in 1..Len(interpreter.envs), name \in EnvNames, value \in EnvValues :
           \E r \in {assign(interpreter.envs, self, name, value)} :
               /\ interpreter' = [interpreter EXCEPT !.envs = r.envs]
               /\ call' = EnvCall("assign", self, name, value, r)
    /\ UNCHANGED <<scanner, parser, stdout>>

\* self.get(name)
EnvGet ==
    /\ \E self \in 1..Len(interpreter.envs), name \in EnvNames :
           \E r \in {get(interpreter.envs, self, name)} :
               /\ interpreter' = [interpreter EXCEPT !.envs = r.envs]
               /\ call' = EnvCall("get", self, name, None, r)
    /\ UNCHANGED <<scanner, parser, stdout>>

(***************************************************************************)
(* Parser (core/parser.py).  A parsing method is an operator of the token  *)
(* list t, the cursor c (self.current) and what has been printed so far,   *)
(* o; it gives the cursor and the output it leaves, and either the node it *)
(* returns or the ParserError it raises.                                   *)
(***************************************************************************)
Parsed(node, c, o) ==
    [err |-> FALSE, node |-> node, cur |-> c, out |-> o,
     token |-> Tok("EOF", ""), message |-> ""]

ParserError(token, message, c, o) ==
    [err |-> TRUE, node |-> None, cur |-> c, out |-> o,
     token |-> token, message |-> message]

peek(t, c) == t[c + 1]

\* tokens[current - 1]; Python's index -1 is the last element.
previous(t, c) == IF c = 0 THEN t[Len(t)] ELSE t[c]

is_end(t, c) == peek(t, c).type = "EOF"

check(t, c, type) == IF is_end(t, c) THEN FALSE ELSE peek(t, c).type = type

\* The cursor after advance().
advance(t, c) == IF ~is_end(t, c) THEN c + 1 ELSE c

\* match(*types): TRUE when one of the types checks; the cursor then
\* advances by one.
match(t, c, types) == \E type \in types : check(t, c, type)

consume(t, c, o, type, message) ==
    IF check(t, c, type)
    THEN Parsed(previous(t, advance(t, c)), advance(t, c), o)
    ELSE ParserError(peek(t, c), message, c, o)

\* str(e) of the InvalidAssignment that assignment() prints.
InvalidAssignmentReport(equals) == <<"invalid-assignment", equals.line, equals.lexeme>>

\* expr.make_assignment(equals, value): TRUE when it returns an Assign node,
\* FALSE when it raises InvalidAssignment.
CanAssign(expr) == expr[1] = "Variable"

make_assignment(expr, equals, value) == Assign(expr[2], value)

Starters == {"CLASS", "FUN", "VAR", "FOR", "IF", "WHILE", "PRINT", "RETURN"}

\* The while loop of synchronize(); it gives the cursor it stops at.
RECURSIVE synchronize_loop(_, _)
synchronize_loop(t, c) ==
    IF is_end(t, c) THEN c
    ELSE IF previous(t, c).type = "SEMICOLON" THEN c
    ELSE IF peek(t, c).type \in Starters THEN c
    ELSE synchronize_loop(t, advance(t, c))

\* A variant of synchronize without the advance() before the loop;
\* C27_SynchronizeStopsAtBoundary does not hold of it.
synchronize_loop_only(t, c) == synchronize_loop(t, c)

synchronize(t, c) == synchronize_loop(t, advance(t, c))

\* r is the outcome of a call: a ParserError it raised propagates, and
\* otherwise the method goes on with K(r).
Try(r, K(_)) == IF r.err THEN r ELSE K(r)

RECURSIVE declaration(_, _, _), block_loop(_, _, _, _), statement(_, _, _),
          expression(_, _, _), assignment(_, _, _), conditional(_, _, _),
          conditional_loop(_, _, _, _), logical_or(_, _, _),
          logical_or_loop(_, _, _, _), logical_and(_, _, _),
          logical_and_loop(_, _, _, _), equality(_, _, _),
          equality_loop(_, _, _, _), comparison(_, _, _),
          comparison_loop(_, _, _, _), term(_, _, _), term_loop(_, _, _, _),
          factor(_, _, _), factor_loop(_, _, _, _), unary(_, _, _),
          primary(_, _, _)

primary(t, c, o) ==
    IF match(t, c, {"FALSE"}) THEN Parsed(Literal(Bool(FALSE)), c + 1, o)
    ELSE IF match(t, c, {"TRUE"}) THEN Parsed(Literal(Bool(TRUE)), c + 1, o)
    ELSE IF match(t, c, {"NIL"}) THEN Parsed(Literal(None), c + 1, o)
    ELSE IF match(t, c, {"NUMBER", "STRING"})
    THEN Parsed(Literal(previous(t, c + 1).literal), c + 1, o)
    ELSE IF match(t, c, {"IDENTIFIER"})
    THEN Parsed(Variable(previous(t, c + 1)), c + 1, o)
    ELSE IF match(t, c, {"LEFT_PAREN"})
    THEN Try(expression(t, c + 1, o), LAMBDA expr :
         Try(consume(t, expr.cur, expr.out, "RIGHT_PAREN",
                     "Expect ')' after expression."), LAMBDA p :
         Parsed(Grouping(expr.node), p.cur, p.out)))
    ELSE ParserError(peek(t, c), "Expected expression", c, o)

unary(t, c, o) ==
    IF match(t, c, {"BANG", "MINUS"})
    THEN Try(unary(t, c + 1, o), LAMBDA right :
         Parsed(Unary(previous(t, c + 1), right.node), right.cur, right.out))
    ELSE primary(t, c, o)

\* The while loop of factor(), entered with expr parsed so far.
factor_loop(t, expr, c, o) ==
    IF match(t, c, {"SLASH", "STAR", "MOD"})
    THEN Try(unary(t, c + 1, o), LAMBDA right :
         factor_loop(t, Binary(expr, previous(t, c + 1), right.node),
             right.cur, right.out))
    ELSE Parsed(expr, c, o)

factor(t, c, o) ==
    Try(unary(t, c, o), LAMBDA expr :
        factor_loop(t, expr.node, expr.cur, expr.out))

\* A variant of term_loop that takes the multiplicative operators too and
\* one unary operand each time, left to right; C18_FactorBindsTighter does
\* not hold of it.
term_loop_flat(t, expr, c, o) ==
    IF match(t, c, {"PLUS", "MINUS", "SLASH", "STAR", "MOD"})
    THEN Try(unary(t, c + 1, o), LAMBDA right :
         term_loop(t, Binary(expr, previous(t, c + 1), right.node),
             right.cur, right.out))
    ELSE Parsed(expr, c, o)

\* The while loop of term(), entered with expr parsed so far.
term_loop(t, expr, c, o) ==
    IF match(t, c, {"PLUS", "MINUS"})
    THEN Try(factor(t, c + 1, o), LAMBDA right :
         term_loop(t, Binary(expr, previous(t, c + 1), right.node),
             right.cur, right.out))
    ELSE Parsed(expr, c, o)

term(t, c, o) ==
    Try(factor(t, c, o), LAMBDA expr :
        term_loop(t, expr.node, expr.cur, expr.out))

\* The while loop of comparison(), entered with expr parsed so far.
comparison_loop(t, expr, c, o) ==
    IF match(t, c, {"LESS", "LESS_EQUAL", "GREATER", "GREATER_EQUAL"})
    THEN Try(term(t, c + 1, o), LAMBDA right :
         comparison_loop(t, Binary(expr, previous(t, c + 1), right.node),
             right.cur, right.out))
    ELSE Parsed(expr, c, o)

comparison(t, c, o) ==
    Try(term(t, c, o), LAMBDA expr :
        comparison_loop(t, expr.node, expr.cur, expr.out))

\* The while loop of equality(), entered with expr parsed so far.
equality_loop(t, expr, c, o) ==
    IF match(t, c, {"BANG_EQUAL", "EQUAL_EQUAL"})
    THEN Try(term(t, c + 1, o), LAMBDA right :
         equality_loop(t, Binary(expr, previous(t, c + 1), right.node),
             right.cur, right.out))
    ELSE Parsed(expr, c, o)

equality(t, c, o) ==
    Try(comparison(t, c, o), LAMBDA expr :
        equality_loop(t, expr.node, expr.cur, expr.out))

\* The while loop of logical_and(), entered with expr parsed so far.
logical_and_loop(t, expr, c, o) ==
    IF match(t, c, {"AND"})
    THEN Try(equality(t, c + 1, o), LAMBDA right :
         logical_and_loop(t, Logical(expr, previous(t, c + 1), right.node),
             right.cur, right.out))
    ELSE Parsed(expr, c, o)

logical_and(t, c, o) ==
    Try(equality(t, c, o), LAMBDA expr :
        logical_and_loop(t, expr.node, expr.cur, expr.out))

\* The while loop of logical_or(), entered with expr parsed so far.
logical_or_loop(t, expr, c, o) ==
    IF match(t, c, {"OR"})
    THEN Try(logical_and(t, c + 1, o), LAMBDA right :
         logical_or_loop(t, Logical(expr, previous(t, c + 1), right.node),
             right.cur, right.out))
    ELSE Parsed(expr, c, o)

logical_or(t, c, o) ==
    Try(logical_and(t, c, o), LAMBDA expr :
        logical_or_loop(t, expr.node, expr.cur, expr.out))

\* The while loop of conditional(), entered with expr parsed so far.
conditional_loop(t, expr, c, o) ==
    IF match(t, c, {"QUESTION"})
    THEN Try(expression(t, c + 1, o), LAMBDA left :
         Try(consume(t, left.cur, left.out, "COLON", "Expected ':'"), LAMBDA colon :
         Try(conditional(t, colon.cur, colon.out), LAMBDA right :
         conditional_loop(t,
             Conditional(expr, previous(t, c + 1), left.node, right.node),
             right.cur, right.out))))
    ELSE Parsed(expr, c, o)

conditional(t, c, o) ==
    Try(logical_or(t, c, o), LAMBDA expr :
        conditional_loop(t, expr.node, expr.cur, expr.out))

\* A variant of assignment_rest in which an invalid target is a ParserError
\* of the statement; C19_InvalidTargetIsDropped does not hold of it.
assignment_rest_strict(t, expr) ==
    IF match(t, expr.cur, {"EQUAL"})
    THEN Try(assignment(t, expr.cur + 1, expr.out), LAMBDA value :
         IF CanAssign(expr.node)
         THEN Parsed(make_assignment(expr.node, previous(t, expr.cur + 1), value.node),
                     value.cur, value.out)
         ELSE ParserError(previous(t, expr.cur + 1), "Invalid Assignment Target",
                          value.cur, value.out))
    ELSE expr

\* assignment() once its left side expr is parsed.  An InvalidAssignment
\* is caught and printed, and the method falls through to return expr.
assignment_rest(t, expr) ==
    IF match(t, expr.cur, {"EQUAL"})
    THEN Try(assignment(t, expr.cur + 1, expr.out), LAMBDA value :
         IF CanAssign(expr.node)
         THEN Parsed(make_assignment(expr.node, previous(t, expr.cur + 1), value.node),
                     value.cur, value.out)
         ELSE Parsed(expr.node, value.cur,
                     Append(value.out,
                            InvalidAssignmentReport(previous(t, expr.cur + 1)))))
    ELSE expr

assignment(t, c, o) ==
    Try(conditional(t, c, o), LAMBDA expr : assignment_rest(t, expr))

expression(t, c, o) == assignment(t, c, o)

\* var_declaration() once the name is consumed: the optional initializer.
var_initializer(t, name) ==
    IF match(t, name.cur, {"EQUAL"})
    THEN expression(t, name.cur + 1, name.out)
    ELSE Parsed(None, name.cur, name.out)

var_declaration(t, c, o) ==
    Try(consume(t, c, o, "IDENTIFIER", "Expected variable name"), LAMBDA name :
    Try(var_initializer(t, name), LAMBDA initializer :
    Try(consume(t, initializer.cur, initializer.out, "SEMICOLON",
                "Expected ';' after variable declaration"), LAMBDA semi :
    Parsed(Var(name.node, initializer.node), semi.cur, semi.out))))

print_stmt(t, c, o) ==
    Try(expression(t, c, o), LAMBDA value :
    Try(consume(t, value.cur, value.out, "SEMICOLON", "Expected ';' after value"),
        LAMBDA semi : Parsed(PrintStmt(value.node), semi.cur, semi.out)))

expression_stmt(t, c, o) ==
    Try(expression(t, c, o), LAMBDA value :
    Try(consume(t, value.cur, value.out, "SEMICOLON", "Expected ';' after value"),
        LAMBDA semi : Parsed(ExpressionStmt(value.node), semi.cur, semi.out)))

\* What block() appends for the declaration d and where it goes on.
block_next(t, statements, d) ==
    block_loop(t, Append(statements, d.node), d.cur, d.out)

\* The while loop of block(), then its consume of the closing brace.
block_loop(t, statements, c, o) ==
    IF ~check(t, c, "RIGHT_BRACE") /\ ~is_end(t, c)
    THEN block_next(t, statements, declaration(t, c, o))
    ELSE Try(consume(t, c, o, "RIGHT_BRACE", "Expected a '}' after a block"),
             LAMBDA brace : Parsed(Block(statements), brace.cur, brace.out))

block(t, c, o) == block_loop(t, <<>>, c, o)

statement(t, c, o) ==
    IF match(t, c, {"PRINT"}) THEN print_stmt(t, c + 1, o)
    ELSE IF match(t, c, {"LEFT_BRACE"}) THEN block(t, c + 1, o)
    ELSE expression_stmt(t, c, o)

\* The except clause of declaration(): a ParserError d is caught, the
\* parser synchronizes and the method returns None.
\* A variant of declaration_except that does not synchronize after an error
\* at a closing brace; C29_ParseAdvances does not hold of it.
declaration_except_at_brace(t, d) ==
    IF d.err
    THEN IF peek(t, d.cur).type = "RIGHT_BRACE"
         THEN Parsed(None, d.cur, d.out)
         ELSE Parsed(None, synchronize(t, d.cur), d.out)
    ELSE d

declaration_except(t, d) ==
    IF d.err THEN Parsed(None, synchronize(t, d.cur), d.out) ELSE d

declaration(t, c, o) ==
    declaration_except(t,
        IF match(t, c, {"VAR"}) THEN var_declaration(t, c + 1, o)
        ELSE statement(t, c, o))

\* What parse() appends for the declaration d and where it goes on.
RECURSIVE parse_loop(_, _, _, _)
parse_next(t, smts, d) == parse_loop(t, Append(smts, d.node), d.cur, d.out)

\* parse(): the while loop from cursor c with smts collected so far.
parse_loop(t, smts, c, o) ==
    IF ~is_end(t, c)
    THEN parse_next(t, smts, declaration(t, c, o))
    ELSE Parsed(smts, c, o)

\* Parser(tokens).parse()
parse(t) == parse_loop(t, <<>>, 0, <<>>).node

\* Parser(tokens)
NewParser(tokens) ==
    [tokens |-> tokens, current |-> 0, smts |-> <<>>, status |-> "running"]

NoParser == [tokens |-> <<>>, current |-> 0, smts |-> <<>>, status |-> "idle"]

\* One iteration of the while loop of parse().
ParseDeclaration ==
    /\ parser.status = "running"
    /\ ~is_end(parser.tokens, parser.current)
    /\ \E d \in {declaration(parser.tokens, parser.current, stdout)} :
           /\ parser' = [parser EXCEPT !.current = d.cur,
                                       !.smts = Append(@, d.node)]
           /\ stdout' = d.out
    /\ UNCHANGED <<scanner, interpreter, call>>

\* The while loop of parse() ends: parse returns smts.
ParseReturn ==
    /\ parser.status = "running"
    /\ is_end(parser.tokens, parser.current)
    /\ parser' = [parser EXCEPT !.status = "returned"]
    /\ UNCHANGED <<scanner, interpreter, call, stdout>>

(***************************************************************************)
(* Two tokens a and b under a client that compares them: call keeps the    *)
(* tokens, the comparisons made so far, and what a == b and a != b         *)
(* returned (FALSE before the comparison is made).                         *)
(***************************************************************************)
Comparison(a, b) == [a |-> a, b |-> b, made |-> {}, eq |-> FALSE, ne |-> FALSE]

\* a == b
TokenEq ==
    /\ "==" \notin call.made
    /\ call' = [call EXCEPT !.made = @ \cup {"=="},
                            !.eq = Token_eq(call.a, call.b)]
    /\ UNCHANGED <<scanner, parser, interpreter, stdout>>

\* a != b
TokenNe ==
    /\ "!=" \notin call.made
    /\ call' = [call EXCEPT !.made = @ \cup {"!="},
                            !.ne = Token_ne(call.a, call.b)]
    /\ UNCHANGED <<scanner, parser, interpreter, stdout>>

\* A Parser whose cursor is at start when a ParserError reaches the except
\* clause of declaration(); start is kept to tell where synchronize began.
FailedParser(tokens, start) ==
    [tokens |-> tokens, current |-> start, smts |-> <<>>, status |-> "failed",
     start |-> start]

\* The call of synchronize() in the except clause of declaration().
Synchronize ==
    /\ parser.status = "failed"
    /\ parser' = [parser EXCEPT !.current = synchronize(parser.tokens, parser.current),
                                !.status = "synchronized"]
    /\ UNCHANGED <<scanner, interpreter, call, stdout>>

(***************************************************************************)
(* Scanner (core/scanner.py).  The source is a sequence of characters,     *)
(* each a string of length one.                                            *)
(***************************************************************************)
numbers == {"0", "1", "2", "3", "4", "5", "6", "7", "8", "9"}

\* ascii_letters + "_"
alpha ==
    {"a", "b", "c", "d", "e", "f", "g", "h", "i", "j", "k", "l", "m",
     "n", "o", "p", "q", "r", "s", "t", "u", "v", "w", "x", "y", "z",
     "A", "B", "C", "D", "E", "F", "G", "H", "I", "J", "K", "L", "M",
     "N", "O", "P", "Q", "R", "S", "T", "U", "V", "W", "X", "Y", "Z",
     "_"}

keywords ==
    [and |-> "AND",
     class |-> "CLASS",
     else |-> "ELSE",
     false |-> "FALSE",
     for |-> "FOR",
     fun |-> "FUN",
     if |-> "IF",
     nil |-> "NIL",
     or |-> "OR",
     print |-> "PRINT",
     return |-> "RETURN",
     super |-> "SUPER",
     this |-> "THIS",
     true |-> "TRUE",
     var |-> "VAR",
     while |-> "WHILE"]

\* Scanner(source); start is None (here -1) until scan_tokens sets it.
NewScanner(source) ==
    [source |-> source, current |-> 0, start |-> 0 - 1, line |-> 0,
     tokens |-> <<>>, status |-> "running",
     error |-> [line |-> 0, message |-> ""]]

NoScanner ==
    [source |-> <<>>, current |-> 0, start |-> 0 - 1, line |-> 0,
     tokens |-> <<>>, status |-> "idle",
     error |-> [line |-> 0, message |-> ""]]

scan_is_end(source, current) == current >= Len(source)

\* peek(): the current character, or None (here "None") at the end.
scan_peek(source, current) ==
    IF scan_is_end(source, current) THEN "None" ELSE source[current + 1]

\* peek_next(): the character after the current one, or "\0" (here "NUL").
scan_peek_next(source, current) ==
    IF current + 1 >= Len(source) THEN "NUL" ELSE source[current + 2]

is_alpha(char) == IF char = "None" THEN FALSE ELSE char \in alpha

is_digit(char) == IF char = "None" THEN FALSE ELSE char \in numbers

is_alpha_num(char) == is_alpha(char) \/ is_digit(char)

\* match(expected): TRUE when the current character is the expected one;
\* the cursor then moves past it.
scan_match(source, current, expected) ==
    IF scan_is_end(source, current) THEN FALSE
    ELSE scan_peek(source, current) = expected

\* source[from:to] as one string
RECURSIVE Slice(_, _, _)
Slice(source, from, to) ==
    IF from >= to THEN "" ELSE source[from + 1] \o Slice(source, from + 1, to)

DigitValue(char) ==
    CASE char = "0" -> 0 [] char = "1" -> 1 [] char = "2" -> 2 [] char = "3" -> 3
      [] char = "4" -> 4 [] char = "5" -> 5 [] char = "6" -> 6 [] char = "7" -> 7
      [] char = "8" -> 8 [] char = "9" -> 9

\* float(lex) for lex = source[from:to], digits with at most one "." inside:
\* ToFloat carries the digits read so far (n) and the power of ten of the
\* fraction (d, 0 before the point).
RECURSIVE ToFloat(_, _, _, _, _)
ToFloat(source, from, to, n, d) ==
    IF from >= to THEN Float(n, IF d = 0 THEN 1 ELSE d)
    ELSE IF source[from + 1] = "."
    THEN ToFloat(source, from + 1, to, n, 1)
    ELSE ToFloat(source, from + 1, to, n * 10 + DigitValue(source[from + 1]), d * 10)

\* A variant of add_token whose lexeme starts at the beginning of the
\* source; C13_LexemeIsItsSpan does not hold of it.
add_token_from_zero(s, type, literal) ==
    [s EXCEPT !.tokens =
        Append(@, Token(type, Slice(s.source, 0, s.current), literal, s.line))]

\* add_token(_type, literal)
add_token(s, type, literal) ==
    [s EXCEPT !.tokens =
        Append(@, Token(type, Slice(s.source, s.start, s.current), literal, s.line))]

\* A variant of ScanningError in which scan_tokens returns the tokens
\* scanned so far; C14_ErrorsAbortScanning does not hold of it.
ScanningError_partial(s, line, message) == [s EXCEPT !.status = "returned"]

ScanningError(s, line, message) ==
    [s EXCEPT !.status = "raised", !.error = [line |-> line, message |-> message]]

\* The while loop of make_string: the scanner when the loop ends.
RECURSIVE make_string_loop(_)
make_string_loop(s) ==
    IF scan_peek(s.source, s.current) # "\"" /\ ~scan_is_end(s.source, s.current)
    THEN make_string_loop(
             [s EXCEPT !.line = IF scan_peek(s.source, s.current) = "\n"
                                THEN @ + 1 ELSE @,
                       !.current = @ + 1])
    ELSE s

make_string(s) ==
    LET l == make_string_loop(s) IN
    IF scan_is_end(l.source, l.current)
    THEN ScanningError(l, l.line, "ScanningError: Unterminated string")
    ELSE LET a == [l EXCEPT !.current = @ + 1]
         IN  add_token(a, "STRING", Str(Slice(a.source, a.start + 1, a.current - 1)))

\* while self.is_digit(self.peek()): self.advance()
RECURSIVE digits_loop(_)
digits_loop(s) ==
    IF is_digit(scan_peek(s.source, s.current))
    THEN digits_loop([s EXCEPT !.current = @ + 1])
    ELSE s

\* A variant of make_number that takes a "." after the digits whatever
\* follows it; C28_NumberLiteral does not hold of it.
make_number_greedy(s) ==
    LET i == digits_loop(s)
        f == IF scan_peek(i.source, i.current) = "."
             THEN digits_loop([i EXCEPT !.current = @ + 1])
             ELSE i
    IN  add_token(f, "NUMBER", ToFloat(f.source, f.start, f.current, 0, 0))

make_number(s) ==
    LET i == digits_loop(s)
        f == IF scan_peek(i.source, i.current) = "."
                /\ is_digit(scan_peek_next(i.source, i.current))
             THEN digits_loop([i EXCEPT !.current = @ + 1])
             ELSE i
    IN  add_token(f, "NUMBER", ToFloat(f.source, f.start, f.current, 0, 0))

RECURSIVE make_identifier_loop(_)
make_identifier_loop(s) ==
    IF is_alpha_num(scan_peek(s.source, s.current))
    THEN make_identifier_loop([s EXCEPT !.current = @ + 1])
    ELSE s

\* A variant of make_identifier that does not look the text up in the
\* keywords; C16_KeywordsAreNotIdentifiers does not hold of it.
make_identifier_plain(s) == add_token(make_identifier_loop(s), "IDENTIFIER", None)

make_identifier(s) ==
    LET l == make_identifier_loop(s)
        text == Slice(l.source, l.start, l.current)
    IN  IF text \in DOMAIN keywords
        THEN add_token(l, keywords[text], None)
        ELSE add_token(l, "IDENTIFIER", None)

\* A variant of make_comment that leaves the text of the comment to be
\* scanned; C17_CommentsGiveNoTokens does not hold of it.
make_comment_none(s) == s

RECURSIVE make_comment(_)
make_comment(s) ==
    IF scan_peek(s.source, s.current) # "\n" /\ ~scan_is_end(s.source, s.current)
    THEN make_comment([s EXCEPT !.current = @ + 1])
    ELSE s

\* The loop of make_multiline_comment; mlc_line is the line of the opening.
RECURSIVE make_multiline_comment_loop(_, _)
make_multiline_comment_loop(s, mlc_line) ==
    IF ~scan_is_end(s.source, s.current)
    THEN IF scan_peek(s.source, s.current) = "\n"
         THEN make_multiline_comment_loop(
                  [s EXCEPT !.line = @ + 1, !.current = @ + 1], mlc_line)
         ELSE IF scan_peek(s.source, s.current) = "*"
                 /\ scan_peek_next(s.source, s.current) = "/"
         THEN [s EXCEPT !.current = @ + 2]
         ELSE make_multiline_comment_loop([s EXCEPT !.current = @ + 1], mlc_line)
    ELSE ScanningError(s, mlc_line, "Unterminated multiline comment")

make_multiline_comment(s) == make_multiline_comment_loop(s, s.line)

\* A variant of OneOrTwo that never takes the second character;
\* C15_OperatorAlone does not hold of it.
OneOrTwo_single(a, second, two, one) == add_token(a, one, None)

\* A character that is the first of a one- or two-character token:
\* a is the scanner after advance(), second the character that makes the
\* two-character token.
OneOrTwo(a, second, two, one) ==
    IF scan_match(a.source, a.current, second)
    THEN add_token([a EXCEPT !.current = @ + 1], two, None)
    ELSE add_token(a, one, None)

\* scan(): one token, comment or blank from s.current on.
scan(s) ==
    LET char == s.source[s.current + 1]
        a == [s EXCEPT !.current = @ + 1]
    IN  CASE char = "\n" -> [a EXCEPT !.line = @ + 1]
          [] char \in {" ", "\r", "\t"} -> a
          [] char = "*" -> add_token(a, "STAR", None)
          [] char = "%" -> add_token(a, "MOD", None)
          [] char = "?" -> add_token(a, "QUESTION", None)
          [] char = "\"" -> make_string(a)
          [] char = "(" -> add_token(a, "LEFT_PAREN", None)
          [] char = ")" -> add_token(a, "RIGHT_PAREN", None)
          [] char = "{" -> add_token(a, "LEFT_BRACE", None)
          [] char = "}" -> add_token(a, "RIGHT_BRACE", None)
          [] char = "," -> add_token(a, "COMMA", None)
          [] char = ";" -> add_token(a, "SEMICOLON", None)
          [] char = ":" -> add_token(a, "COLON", None)
          [] char = "." -> add_token(a, "DOT", None)
          [] char = "+" -> OneOrTwo(a, "+", "PLUS_PLUS", "PLUS")
          [] char = "-" -> OneOrTwo(a, "-", "MINUS_MINUS", "MINUS")
          [] char = "!" -> OneOrTwo(a, "=", "BANG_EQUAL", "BANG")
          [] char = "=" -> OneOrTwo(a, "=", "EQUAL_EQUAL", "EQUAL")
          [] char = "/" ->
               IF scan_match(a.source, a.current, "/")
               THEN make_comment([a EXCEPT !.current = @ + 1])
               ELSE IF scan_match(a.source, a.current, "*")
               THEN make_multiline_comment([a EXCEPT !.current = @ + 1])
               ELSE add_token(a, "SLASH", None)
          [] char = ">" -> OneOrTwo(a, "=", "GREATER_EQUAL", "GREATER")
          [] char = "<" -> OneOrTwo(a, "=", "LESS_EQUAL", "LESS")
          [] OTHER ->
               IF is_digit(char) THEN make_number(a)
               ELSE IF is_alpha(char) THEN make_identifier(a)
               ELSE ScanningError(a, a.line, "ScanningError: Unidentified token type.")

\* A variant of scan_eof that returns the list without the EOF token;
\* C12_SingleFinalEOF does not hold of it.
scan_eof_missing(s) == [s EXCEPT !.status = "returned"]

\* The end of scan_tokens: the EOF token is appended and the list returned.
scan_eof(s) ==
    [s EXCEPT !.tokens = Append(@, Token("EOF", "", None, s.line)),
              !.status = "returned"]

\* scan_tokens() run to its end: the scanner when it returns or raises.
RECURSIVE scan_tokens_loop(_)
scan_tokens_loop(s) ==
    IF s.status # "running" THEN s
    ELSE IF ~scan_is_end(s.source, s.current)
    THEN scan_tokens_loop(scan([s EXCEPT !.start = s.current]))
    ELSE scan_eof(s)

\* Scanner(source).scan_tokens(), for a source on which it returns.
scan_tokens(source) == scan_tokens_loop(NewScanner(source)).tokens

\* What the scan_tokens call of scanner s gives its caller: the token list
\* when it has returned, and a ScanningError and no list when it has raised.
ScanResult(s) ==
    [exc |-> IF s.status = "raised" THEN "ScanningError" ELSE "none",
     tokens |-> IF s.status = "returned" THEN s.tokens ELSE None]

\* One iteration of the while loop of scan_tokens.
ScanToken ==
    /\ scanner.status = "running"
    /\ ~scan_is_end(scanner.source, scanner.current)
    /\ scanner' = scan([scanner EXCEPT !.start = scanner.current])
    /\ UNCHANGED <<parser, interpreter, call, stdout>>

\* The while loop of scan_tokens ends.
ScanEOF ==
    /\ scanner.status = "running"
    /\ scan_is_end(scanner.source, scanner.current)
    /\ scanner' = scan_eof(scanner)
    /\ UNCHANGED <<parser, interpreter, call, stdout>>

(***************************************************************************)
(* Inputs.                                                                 *)
(***************************************************************************)
\* All sequences over S of length 0 .. n
SeqsUpTo(S, n) == UNION {[1..k -> S] : k \in 0..n}

\* The characters of the generated sources.
SourceAlphabet == {"1", "a", "+", "\n", " ", "\"", "/", "*", ".", "@"}

\* test_interpreter.py test_if: if (1 < 0) print 5; else print 3;
SourceIfElse ==
    <<"i", "f", " ", "(", "1", " ", "<", " ", "0", ")", " ", "p", "r",
      "i", "n", "t", " ", "5", ";", " ", "e", "l", "s", "e", " ", "p",
      "r", "i", "n", "t", " ", "3", ";">>

\* if (1 < 0) print 5;
SourceIfOnly ==
    <<"i", "f", " ", "(", "1", " ", "<", " ", "0", ")", " ", "p", "r",
      "i", "n", "t", " ", "5", ";">>

\* var x = 5; x = x + 1; print x;
SourceIncrement ==
    <<"v", "a", "r", " ", "x", " ", "=", " ", "5", ";", " ", "x", " ",
      "=", " ", "x", " ", "+", " ", "1", ";", " ", "p", "r", "i", "n",
      "t", " ", "x", ";">>

\* var x = 1; { var y = 3; x = 2; } print y;
SourceBlock ==
    <<"v", "a", "r", " ", "x", " ", "=", " ", "1", ";", " ", "{", " ",
      "v", "a", "r", " ", "y", " ", "=", " ", "3", ";", " ", "x", " ",
      "=", " ", "2", ";", " ", "}", " ", "p", "r", "i", "n", "t", " ",
      "y", ";">>

\* test_parser.py test_addition: 1 + 1
SourceAddition ==
    <<"1", " ", "+", " ", "1">>

\* a == b < c;
SourceEqualityFirst ==
    <<"a", " ", "=", "=", " ", "b", " ", "<", " ", "c", ";">>

\* a < b == c;
SourceComparisonFirst ==
    <<"a", " ", "<", " ", "b", " ", "=", "=", " ", "c", ";">>

\* test_parser.py test_nested_comment: 1 /* i should be ignored */ + 1
SourceBlockComment ==
    <<"1", " ", "/", "*", " ", "i", " ", "s", "h", "o", "u", "l", "d", " ",
      "b", "e", " ", "i", "g", "n", "o", "r", "e", "d", " ", "*", "/", " ",
      "+", " ", "1">>

\* test_parser.py test_commented_out: // TODO: Fix additon 1 + 1
SourceLineComment ==
    <<"/", "/", " ", "T", "O", "D", "O", ":", " ", "F", "i", "x", " ", "a",
      "d", "d", "i", "t", "o", "n", " ", "1", " ", "+", " ", "1">>

ExampleSources ==
    {SourceIfElse, SourceIfOnly, SourceIncrement, SourceBlock, SourceAddition,
     SourceEqualityFirst, SourceComparisonFirst, SourceBlockComment,
     SourceLineComment}

\* test_lexer.py test_plus .. test_plus_plus: each operator or punctuation
\* lexeme alone.
OperatorSources ==
    {<<"(">>, <<")">>, <<"{">>, <<"}">>, <<",">>, <<";">>, <<":">>,
     <<".">>, <<"*">>, <<"%">>, <<"?">>, <<"!">>, <<"!", "=">>, <<"=">>,
     <<"=", "=">>, <<"<">>, <<"<", "=">>, <<">">>, <<">", "=">>, <<"+">>,
     <<"+", "+">>, <<"-">>, <<"-", "-">>, <<"/">>}

\* test_lexer.py test_keywords: each reserved word alone.
KeywordSources ==
    {<<"a", "n", "d">>, <<"c", "l", "a", "s", "s">>,
     <<"e", "l", "s", "e">>, <<"f", "a", "l", "s", "e">>,
     <<"f", "o", "r">>, <<"f", "u", "n">>, <<"i", "f">>, <<"n", "i", "l">>,
     <<"o", "r">>, <<"p", "r", "i", "n", "t">>,
     <<"r", "e", "t", "u", "r", "n">>, <<"s", "u", "p", "e", "r">>,
     <<"t", "h", "i", "s">>, <<"t", "r", "u", "e">>, <<"v", "a", "r">>,
     <<"w", "h", "i", "l", "e">>}

\* Identifiers alone, some with a reserved word as a proper prefix.
IdentifierSources ==
    {<<"c", "l", "a", "s", "s", "y">>, <<"o", "r", "c", "h", "i", "d">>,
     <<"n", "i", "l", "_">>, <<"_", "x", "1">>, <<"i", "f", "f", "y">>,
     <<"A", "n", "d">>}

\* Sources of numbers and dots.
NumberSources ==
    {<<"1", ".", "5", ".", "3">>, <<"1", "2", ".", "5", "0">>,
     <<"0", ".", "2", "5", ".">>, <<"7", ".", ".", "2">>, <<"4", "2", ".", "a">>}

Sources ==
    SeqsUpTo(SourceAlphabet, MaxSource) \cup ExampleSources
        \cup OperatorSources \cup KeywordSources \cup IdentifierSources
        \cup NumberSources

\* The tokens of the generated token lists, as the scanner makes them.
TokenAlphabet ==
    {Token("NUMBER", "1", Float(1, 1), 0), Token("IDENTIFIER", "x", None, 0),
     Token("PLUS", "+", None, 0), Token("STAR", "*", None, 0),
     Token("EQUAL", "=", None, 0), Token("SEMICOLON", ";", None, 0),
     Token("PRINT", "print", None, 0), Token("VAR", "var", None, 0),
     Token("LEFT_BRACE", "{", None, 0), Token("RIGHT_BRACE", "}", None, 0)}

EOFToken == Token("EOF", "", None, 0)

\* Statements of two operators, one additive and one multiplicative, in
\* both orders, on numbers and on variables: 1 + 2 * 3; a * b - c; ...
PrecedenceSources ==
    {<<x[1], " ", op[1], " ", x[2], " ", op[2], " ", x[3], ";">> :
        x \in {<<"1", "2", "3">>, <<"a", "2", "c">>},
        op \in ({"+", "-"} \X {"*", "/", "%"}) \cup ({"*", "/", "%"} \X {"+", "-"})}

TokenLists ==
    {Append(t, EOFToken) : t \in SeqsUpTo(TokenAlphabet, MaxTokens)}
        \cup {scan_tokens(source) : source \in ExampleSources \cup PrecedenceSources}

\* The tokens that are compared: those of the token lists, and tokens of
\* one kind or of one lexeme with another, with and without a literal, on
\* several lines.
TokenPool ==
    TokenAlphabet \cup
    {EOFToken,
     Token("NUMBER", "2", Float(2, 1), 0), Token("NUMBER", "1", Float(1, 1), 3),
     Token("STRING", "\"x\"", Str("x"), 0), Token("STRING", "\"1\"", Str("1"), 0),
     Token("IDENTIFIER", "y", None, 1), Token("MINUS", "-", None, 0)}

\* The token lists synchronize is called on: tokens it skips, a semicolon,
\* and tokens that begin a statement.
SynchronizeAlphabet ==
    {tok \in TokenAlphabet : tok.type \in {"NUMBER", "PLUS", "SEMICOLON", "PRINT", "VAR"}}
        \cup {Tok("RETURN", "return")}

SynchronizeTokenLists ==
    {Append(t, EOFToken) : t \in SeqsUpTo(SynchronizeAlphabet, MaxTokens)}

\* The statements of the generated statement lists.
X == Tok("IDENTIFIER", "x")
Y == Tok("IDENTIFIER", "y")
Number(n) == Literal(Float(n, 1))

StmtPool ==
    {Var(X, Number(1)),
     Var(Y, None),
     ExpressionStmt(Assign(X, Number(2))),
     ExpressionStmt(Assign(Y, Binary(Variable(X), Tok("PLUS", "+"), Number(1)))),
     PrintStmt(Variable(X)),
     PrintStmt(Variable(Y)),
     PrintStmt(Literal(Str("a"))),
     PrintStmt(Binary(Number(1), Tok("PLUS", "+"), Literal(None))),
     PrintStmt(Binary(Number(1), Tok("SLASH", "/"), Number(0))),
     PrintStmt(Binary(Number(3), Tok("MOD", "%"), Number(0))),
     Block(<<Var(Y, Number(3)), ExpressionStmt(Assign(X, Number(2)))>>),
     IfStmt(Literal(Bool(FALSE)), PrintStmt(Number(5)), PrintStmt(Number(3))),
     None}

\* The values of the generated equality tests.
ValuePool ==
    {None, Bool(TRUE), Bool(FALSE), Float(0, 1), Float(1, 1), Str("a"), Str("")}

EqualityPrograms ==
    {<<PrintStmt(Binary(Literal(a), Tok(op[1], op[2]), Literal(b)))>> :
        a \in ValuePool, b \in ValuePool,
        op \in {<<"EQUAL_EQUAL", "==">>, <<"BANG_EQUAL", "!=">>}}

\* run_lox(source) up to the call of interpret: the parsed statements.
Pipeline(source) == parse(scan_tokens(source))

\* An operand of the generated expressions: the expression expr, the value
\* its evaluation gives when x and y are 1, whether it raises instead, and
\* the variable it assigns ("" when none).
Probe(expr, value, raises, writes) ==
    [expr |-> expr, value |-> value, raises |-> raises, writes |-> writes]

Increment == Assign(X, Binary(Variable(X), Tok("PLUS", "+"), Number(1)))

\* Left operands and conditions: literals, x = x + 1 (2, truthy) and
\* (x = x + 1) == 0 (false).  A second evaluation of x = x + 1 differs from
\* the first one.
LeftOperands ==
    {Probe(Literal(v), v, FALSE, "") :
         v \in {None, Bool(FALSE), Bool(TRUE), Float(0, 1), Str("")}}
        \cup {Probe(Increment, Float(2, 1), FALSE, "x"),
              Probe(Binary(Increment, Tok("EQUAL_EQUAL", "=="), Number(0)),
                      Bool(FALSE), FALSE, "x")}

\* Right operands and branches: literals, y = 2 and 1 / 0.
RightOperands ==
    {Probe(Literal(v), v, FALSE, "") : v \in {None, Bool(FALSE), Float(1, 1), Str("a")}}
        \cup {Probe(Assign(Y, Number(2)), Float(2, 1), FALSE, "y"),
              Probe(Binary(Number(1), Tok("SLASH", "/"), Number(0)), None, TRUE, "")}

LogicalOperators == {Tok("AND", "and"), Tok("OR", "or")}

\* var x = 1; var y = 1; print expr;
PrintProgram(expr) == <<Var(X, Number(1)), Var(Y, Number(1)), PrintStmt(expr)>>

LogicalPrograms ==
    {PrintProgram(Logical(l.expr, op, r.expr)) :
        l \in LeftOperands, op \in LogicalOperators, r \in RightOperands}

ConditionalPrograms ==
    {PrintProgram(Conditional(c.expr, Tok("QUESTION", "?"), a.expr, b.expr)) :
        c \in LeftOperands, a \in RightOperands, b \in RightOperands}

\* The operands and the operators of the generated Binary expressions:
\* nil, a boolean, strings, and the numbers 0, 1/2, 3 and -3.
BinaryOperands ==
    {None, Bool(TRUE), Str("a"), Str(""),
     Float(0, 1), Float(1, 2), Float(3, 1), Float(0 - 3, 1)}

NumericOperators ==
    {Tok("MINUS", "-"), Tok("STAR", "*"), Tok("SLASH", "/"), Tok("MOD", "%"),
     Tok("LESS", "<"), Tok("LESS_EQUAL", "<="),
     Tok("GREATER", ">"), Tok("GREATER_EQUAL", ">=")}

\* print a op b;
BinaryProgram(a, op, b) == <<PrintStmt(Binary(Literal(a), op, Literal(b)))>>

BinaryPrograms ==
    {BinaryProgram(a, op, b) :
        a \in BinaryOperands, b \in BinaryOperands,
        op \in NumericOperators \cup {Tok("PLUS", "+")}}

Programs ==
    SeqsUpTo(StmtPool, MaxStmts) \cup EqualityPrograms
        \cup {Pipeline(source) : source \in ExampleSources}
        \cup LogicalPrograms \cup ConditionalPrograms \cup BinaryPrograms

(***************************************************************************)
(* Specifications: the interpreter on a statement list (Spec), the parser  *)
(* on a token list (SpecParser), the scanner on a source (SpecScanner),    *)
(* the Environment class under any client (SpecEnvironment), synchronize   *)
(* from any cursor of a token list (SpecSynchronize), the comparison of    *)
(* two tokens (SpecToken).                                                 *)
(***************************************************************************)
Init ==
    /\ scanner = NoScanner
    /\ parser = NoParser
    /\ interpreter = NewInterpreter
    /\ call \in {NewCall(stmts) : stmts \in Programs}
    /\ stdout = <<>>

Next == InterpretStmt \/ InterpretReturn

Spec == Init /\ [][Next]_vars

InitParser ==
    /\ scanner = NoScanner
    /\ parser \in {NewParser(tokens) : tokens \in TokenLists}
    /\ interpreter = NewInterpreter
    /\ call = NoCall
    /\ stdout = <<>>

NextParser == ParseDeclaration \/ ParseReturn

SpecParser == InitParser /\ [][NextParser]_vars

InitScanner ==
    /\ scanner \in {NewScanner(source) : source \in Sources}
    /\ parser = NoParser
    /\ interpreter = NewInterpreter
    /\ call = NoCall
    /\ stdout = <<>>

NextScanner == ScanToken \/ ScanEOF

SpecScanner == InitScanner /\ [][NextScanner]_vars

InitSynchronize ==
    /\ scanner = NoScanner
    /\ parser \in {FailedParser(tokens, start) :
                      tokens \in SynchronizeTokenLists, start \in 0..MaxTokens}
    /\ parser.start < Len(parser.tokens)
    /\ interpreter = NewInterpreter
    /\ call = NoCall
    /\ stdout = <<>>

NextSynchronize == Synchronize

SpecSynchronize == InitSynchronize /\ [][NextSynchronize]_vars

InitToken ==
    /\ scanner = NoScanner
    /\ parser = NoParser
    /\ interpreter = NewInterpreter
    /\ call \in {Comparison(a, b) : a \in TokenPool, b \in TokenPool}
    /\ stdout = <<>>

NextToken == TokenEq \/ TokenNe

SpecToken == InitToken /\ [][NextToken]_vars

InitEnvironment ==
    /\ scanner = NoScanner
    /\ parser = NoParser
    /\ interpreter = NewInterpreter
    /\ call = NoEnvCall
    /\ stdout = <<>>

NextEnvironment == EnvNew \/ EnvDefine \/ EnvAssign \/ EnvGet

SpecEnvironment == InitEnvironment /\ [][NextEnvironment]_vars

(***************************************************************************)
(* Properties.                                                             *)
(***************************************************************************)
\* The variables of the global environment.
Globals == interpreter.envs[1].values

\* The classes of the values a Lox variable can hold: number, string,
\* boolean and nil.
LoxTypes == {"float", "str", "bool", "None"}

\* The exception classes of the run-time errors of a Lox program.
RunTimeErrors == {"LoxRunTimeError", "UndefinedVariable"}

\* C1: after an assignment x = e the variable x holds the value e evaluated
\* to, which is a number, a string, a boolean or nil, so that
\* var x = 5; x = x + 1; print x; prints 6.
C1_AssignStoresValue ==
    /\ \A name \in DOMAIN Globals : TypeOf(Globals[name]) \in LoxTypes
    /\ (call.stmts = Pipeline(SourceIncrement) /\ call.status # "running")
           => (call.status = "returned" /\ stdout = <<Float(6, 1)>>)

\* d is the outcome of declaration() on the n tokens of one statement and
\* EOF: the statement is parsed whole and nothing is reported.
IsWhole(d, n) == d.node # None /\ d.cur = n /\ d.out = <<>>

\* The tokens w are one well-formed statement.
WellFormed(w) ==
    Len(w) > 0 /\ IsWhole(declaration(Append(w, EOFToken), 0, <<>>), Len(w))

\* The elements of the sequence s.
Range(s) == {s[i] : i \in 1..Len(s)}

\* C2: when the tokens are a statement that only misses its terminating
\* semicolon, followed by a well-formed statement that begins with print or
\* var, parse() returns a list that contains the statement of the second.
C2_RecoveryKeepsNextStatement ==
    parser.status = "returned" =>
        \A k \in 1..(Len(parser.tokens) - 2) :
            (/\ WellFormed(Append(SubSeq(parser.tokens, 1, k), Tok("SEMICOLON", ";")))
             /\ parser.tokens[k + 1].type \in {"PRINT", "VAR"}
             /\ WellFormed(SubSeq(parser.tokens, k + 1, Len(parser.tokens) - 1)))
                => parse(Append(SubSeq(parser.tokens, k + 1, Len(parser.tokens) - 1),
                                EOFToken))[1] \in Range(parser.smts)

\* C3: a run-time error of a statement (an operand of the wrong type, a
\* division or modulo by zero, a read of or an assignment to an undefined
\* variable) never leaves interpret: the call returns and its last output
\* is the report of the error.
C3_NeverRaises ==
    call.exc \in RunTimeErrors =>
        /\ call.status = "returned"
        /\ Len(stdout) > 0
        /\ stdout[Len(stdout)][1] = "error"

\* C4: interpret runs the statements in list order and stops at the first
\* that raises.  With next statements completed, the outputs of statements
\* are those of the Print statements among the first next ones, in order
\* (the value itself for a literal); a report of an error is the last
\* output of a call that has returned; the variables declared by the first
\* next statements are in the environment; and a call that an exception
\* ended is not running and has left its later statements alone.
C4_InOrderUntilError ==
    LET done == SubSeq(call.stmts, 1, call.next)
        prints == SelectSeq(done, LAMBDA s : s[1] = "Print")
        printed == SelectSeq(stdout, LAMBDA x : x[1] # "error")
    IN  /\ Len(printed) = Len(prints)
        /\ \A i \in 1..Len(prints) :
               prints[i][2][1] = "Literal" => printed[i] = Stringify(prints[i][2][2])
        /\ \A i \in 1..Len(stdout) :
               stdout[i][1] = "error" =>
                   /\ i = Len(stdout)
                   /\ call.status = "returned"
                   /\ call.exc = "LoxRunTimeError"
        /\ \A i \in 1..Len(done) :
               done[i][1] = "Var" => done[i][2].lexeme \in DOMAIN Globals
        /\ call.exc # "none" =>
               (call.status # "running" /\ call.next < Len(call.stmts))

\* A call of three statements has returned: the first printed, the second
\* divided by zero, and the third, a Print, was not executed.
C4_Witness ==
    /\ call.status = "returned"
    /\ call.exc = "LoxRunTimeError"
    /\ Len(call.stmts) = 3
    /\ call.next = 1
    /\ call.stmts[1] = PrintStmt(Literal(Str("a")))
    /\ call.stmts[2] = PrintStmt(Binary(Number(1), Tok("SLASH", "/"), Number(0)))
    /\ call.stmts[3][1] = "Print"
    /\ stdout = <<Str("a"), <<"error", "Division by zero.", "/">>>>

\* C5: the pipeline on if (c) S1 else S2 executes exactly one branch, and
\* on if (c) S1 with a falsy c neither: if (1 < 0) print 5; else print 3;
\* prints only 3, and if (1 < 0) print 5; prints nothing.
C5_IfRunsOneBranch ==
    /\ (call.stmts = Pipeline(SourceIfElse) /\ call.status # "running")
           => (call.status = "returned" /\ stdout = <<Float(3, 1)>>)
    /\ (call.stmts = Pipeline(SourceIfOnly) /\ call.status # "running")
           => (call.status = "returned" /\ stdout = <<>>)

\* C6: on var x = 1; { var y = 3; x = 2; } print y; the block changes the
\* binding of x in the enclosing scope, its own variable y is gone after
\* it, and the read of y that follows is an undefined-variable error.
C6_BlockScoping ==
    (call.stmts = Pipeline(SourceBlock) /\ call.status # "running") =>
        /\ call.next = 2
        /\ call.exc = "UndefinedVariable"
        /\ "y" \notin DOMAIN Globals
        /\ "x" \in DOMAIN Globals
        /\ Globals["x"] # Float(1, 1)

\* The statement list has a Block, and nothing but blocks and simple
\* statements.
HasBlock(stmts) ==
    /\ \E i \in 1..Len(stmts) : stmts[i][1] = "Block"
    /\ \A i \in 1..Len(stmts) :
           stmts[i][1] \in {"Block", "Var", "ExpressionStmt", "Print", "None"}

C8_Equality ==
    \A a \in ValuePool, b \in ValuePool :
        /\ (/\ call.stmts = <<PrintStmt(Binary(Literal(a), Tok("EQUAL_EQUAL", "=="), Literal(b)))>>
            /\ call.status # "running")
               => (call.status = "returned" /\ stdout = <<Stringify(Bool(a = b))>>)
        /\ (/\ call.stmts = <<PrintStmt(Binary(Literal(a), Tok("BANG_EQUAL", "!="), Literal(b)))>>
            /\ call.status # "running")
               => (call.status = "returned" /\ stdout = <<Stringify(Bool(a # b))>>)

\* C9: parse() of the tokens of x op y, with op one of + - * / and no
\* semicolon, returns a list whose first element is
\* Binary(Literal(x), op, Literal(y)).
C9_BinaryWithoutSemicolon ==
    (/\ parser.status = "returned"
     /\ Len(parser.tokens) = 4
     /\ parser.tokens[1].type = "NUMBER"
     /\ parser.tokens[2].type \in {"PLUS", "MINUS", "STAR", "SLASH"}
     /\ parser.tokens[3].type = "NUMBER")
        => /\ Len(parser.smts) > 0
           /\ parser.smts[1] = Binary(Literal(parser.tokens[1].literal),
                                      parser.tokens[2],
                                      Literal(parser.tokens[3].literal))

\* The number of newline characters of the source.
Newlines(source) == Cardinality({i \in 1..Len(source) : source[i] = "\n"})

\* C10: lines are 1-based.  Every token has a line of at least 1, every
\* token of a source without a newline has line 1, and the EOF token has
\* the line of the end of the source, one more than its newlines.
C10_LinesOneBased ==
    \A i \in 1..Len(scanner.tokens) :
        /\ scanner.tokens[i].line >= 1
        /\ Newlines(scanner.source) = 0 => scanner.tokens[i].line = 1
        /\ scanner.tokens[i].type = "EOF" =>
               scanner.tokens[i].line = 1 + Newlines(scanner.source)

\* The kinds of the tokens t, in order.
TypesOf(t) == [i \in 1..Len(t) |-> t[i].type]

\* C11: equality binds looser than comparison, and both associate to the
\* left: the statement a == b < c; parses with no error to
\* Binary(a, ==, Binary(b, <, c)), and a < b == c; to
\* Binary(Binary(a, <, b), ==, c).
C11_EqualityLooserThanComparison ==
    LET t == parser.tokens IN
    /\ (/\ parser.status = "returned"
        /\ TypesOf(t) = <<"IDENTIFIER", "EQUAL_EQUAL", "IDENTIFIER", "LESS",
                          "IDENTIFIER", "SEMICOLON", "EOF">>)
           => /\ stdout = <<>>
              /\ parser.smts =
                     <<ExpressionStmt(Binary(Variable(t[1]), t[2],
                           Binary(Variable(t[3]), t[4], Variable(t[5]))))>>
    /\ (/\ parser.status = "returned"
        /\ TypesOf(t) = <<"IDENTIFIER", "LESS", "IDENTIFIER", "EQUAL_EQUAL",
                          "IDENTIFIER", "SEMICOLON", "EOF">>)
           => /\ stdout = <<>>
              /\ parser.smts =
                     <<ExpressionStmt(Binary(Binary(Variable(t[1]), t[2],
                           Variable(t[3])), t[4], Variable(t[5])))>>

\* C12: when scan_tokens returns, the list has exactly one EOF token, which
\* is its last element and has the empty lexeme; before that no token is an
\* EOF.
C12_SingleFinalEOF ==
    LET t == scanner.tokens IN
    /\ scanner.status = "returned" =>
           /\ Len(t) > 0
           /\ t[Len(t)].type = "EOF"
           /\ t[Len(t)].lexeme = ""
           /\ \A i \in 1..(Len(t) - 1) : t[i].type # "EOF"
    /\ scanner.status = "running" => \A i \in 1..Len(t) : t[i].type # "EOF"

\* scan_tokens has returned a list of a number, a plus and the EOF.
C12_Witness ==
    /\ scanner.status = "returned"
    /\ TypesOf(scanner.tokens) = <<"NUMBER", "PLUS", "EOF">>

\* source[from:to] is one whitespace character.
IsBlank(source, from, to) ==
    to = from + 1 /\ source[from + 1] \in {" ", "\n", "\r", "\t"}

\* source[from:to] is a line comment: // and the characters up to, and
\* without, the next newline or the end of the source.
IsLineComment(source, from, to) ==
    /\ to >= from + 2
    /\ source[from + 1] = "/"
    /\ source[from + 2] = "/"
    /\ \A i \in (from + 3)..to : source[i] # "\n"
    /\ (to = Len(source) \/ source[to + 1] = "\n")

\* source[from:to] is a block comment, from /* to */.
IsBlockComment(source, from, to) ==
    /\ to >= from + 4
    /\ source[from + 1] = "/"
    /\ source[from + 2] = "*"
    /\ source[to - 1] = "*"
    /\ source[to] = "/"

OperatorChars ==
    {"*", "%", "?", "(", ")", "{", "}", ",", ";", ":", ".", "+", "-", "!",
     "=", "/", ">", "<"}

\* The least element of a non-empty set of integers.
Min(S) == CHOOSE x \in S : \A y \in S : x <= y

\* The 1-based positions from i on at which the source has the character c.
PositionsOf(source, i, c) == {j \in i..Len(source) : source[j] = c}

\* The 1-based positions from i on at which the source has */.
ClosersOf(source, i) ==
    {j \in i..(Len(source) - 1) : source[j] = "*" /\ source[j + 1] = "/"}

\* The first lexical error of the source read from the 0-based position i,
\* outside strings and comments: "string" for a string literal with no
\* closing quote, "comment" for a block comment with no closing */,
\* "character" for a character that begins nothing, "none" without one.
RECURSIVE FirstError(_, _)
FirstError(source, i) ==
    IF i >= Len(source) THEN "none"
    ELSE IF source[i + 1] = "\""
    THEN IF PositionsOf(source, i + 2, "\"") = {} THEN "string"
         ELSE FirstError(source, Min(PositionsOf(source, i + 2, "\"")))
    ELSE IF source[i + 1] = "/" /\ i + 2 <= Len(source) /\ source[i + 2] = "/"
    THEN IF PositionsOf(source, i + 3, "\n") = {} THEN "none"
         ELSE FirstError(source, Min(PositionsOf(source, i + 3, "\n")))
    ELSE IF source[i + 1] = "/" /\ i + 2 <= Len(source) /\ source[i + 2] = "*"
    THEN IF ClosersOf(source, i + 3) = {} THEN "comment"
         ELSE FirstError(source, Min(ClosersOf(source, i + 3)) + 1)
    ELSE IF source[i + 1] \in OperatorChars \cup {" ", "\n", "\r", "\t"}
                                  \cup numbers \cup alpha
    THEN FirstError(source, i + 1)
    ELSE "character"

\* C14: scan_tokens returns only for a source without a lexical error.  On
\* an unterminated string, an unterminated block comment or a character
\* that begins nothing it raises the ScanningError of that error and gives
\* its caller no token list, and it never reaches the end of such a source.
C14_ErrorsAbortScanning ==
    LET first == FirstError(scanner.source, 0) IN
    /\ scanner.status = "returned" => first = "none"
    /\ (scanner.status = "running"
            /\ scan_is_end(scanner.source, scanner.current)) => first = "none"
    /\ scanner.status = "raised" =>
           /\ first # "none"
           /\ first = "string" =>
                  scanner.error.message = "ScanningError: Unterminated string"
           /\ first = "comment" =>
                  scanner.error.message = "Unterminated multiline comment"
           /\ first = "character" =>
                  scanner.error.message = "ScanningError: Unidentified token type."
           /\ ScanResult(scanner).exc = "ScanningError"
           /\ ScanResult(scanner).tokens = None

\* scan_tokens has raised on a source whose string literal, after a number
\* it had scanned, is not closed.
C14_Witness ==
    /\ scanner.status = "raised"
    /\ scanner.source = <<"1", " ", "\"", "a">>
    /\ Len(scanner.tokens) = 1
    /\ ScanResult(scanner).tokens = None

\* The whole source as one string.
TextOf(source) == Slice(source, 0, Len(source))

\* The operator and punctuation lexemes, each with the kind of its token.
OperatorKinds ==
    {<<"(", "LEFT_PAREN">>, <<")", "RIGHT_PAREN">>, <<"{", "LEFT_BRACE">>,
     <<"}", "RIGHT_BRACE">>, <<",", "COMMA">>, <<";", "SEMICOLON">>,
     <<":", "COLON">>, <<".", "DOT">>, <<"*", "STAR">>, <<"%", "MOD">>,
     <<"?", "QUESTION">>, <<"!", "BANG">>, <<"!=", "BANG_EQUAL">>,
     <<"=", "EQUAL">>, <<"==", "EQUAL_EQUAL">>, <<"<", "LESS">>,
     <<"<=", "LESS_EQUAL">>, <<">", "GREATER">>, <<">=", "GREATER_EQUAL">>,
     <<"+", "PLUS">>, <<"++", "PLUS_PLUS">>, <<"-", "MINUS">>,
     <<"--", "MINUS_MINUS">>, <<"/", "SLASH">>}

\* C15: scan_tokens of a source that is one operator or punctuation lexeme
\* returns exactly two tokens: one of the kind of the lexeme whose lexeme
\* is the whole source, then EOF with the empty lexeme.
C15_OperatorAlone ==
    \A p \in OperatorKinds :
        TextOf(scanner.source) = p[1] =>
            /\ scanner.status # "raised"
            /\ scanner.status = "returned" =>
                   /\ Len(scanner.tokens) = 2
                   /\ scanner.tokens[1].type = p[2]
                   /\ scanner.tokens[1].lexeme = p[1]
                   /\ scanner.tokens[2].type = "EOF"
                   /\ scanner.tokens[2].lexeme = ""

\* scan_tokens has returned from the source "!=".
C15_Witness ==
    /\ scanner.status = "returned"
    /\ scanner.source = <<"!", "=">>
    /\ TypesOf(scanner.tokens) = <<"BANG_EQUAL", "EOF">>

\* The reserved words, each with the kind of its token.
KeywordKinds ==
    {<<"and", "AND">>, <<"class", "CLASS">>, <<"else", "ELSE">>,
     <<"false", "FALSE">>, <<"for", "FOR">>, <<"fun", "FUN">>,
     <<"if", "IF">>, <<"nil", "NIL">>, <<"or", "OR">>,
     <<"print", "PRINT">>, <<"return", "RETURN">>, <<"super", "SUPER">>,
     <<"this", "THIS">>, <<"true", "TRUE">>, <<"var", "VAR">>,
     <<"while", "WHILE">>}

\* The source is a run of letters, digits and underscores that begins with
\* a letter or an underscore.
IsWord(source) ==
    /\ Len(source) > 0
    /\ source[1] \in alpha
    /\ \A i \in 1..Len(source) : source[i] \in alpha \cup numbers

\* C16: scan_tokens of a source that is one word returns one token with
\* the word as its lexeme, then EOF: the token has the keyword kind of the
\* word when the word is reserved, and is an IDENTIFIER otherwise, also
\* when the word begins with a reserved word.
C16_KeywordsAreNotIdentifiers ==
    IsWord(scanner.source) =>
        /\ scanner.status # "raised"
        /\ scanner.status = "returned" =>
               /\ TypesOf(scanner.tokens) \in
                      {<<p[2], "EOF">> : p \in
                          {q \in KeywordKinds : q[1] = TextOf(scanner.source)}}
                      \cup {<<"IDENTIFIER", "EOF">>}
               /\ (scanner.tokens[1].type = "IDENTIFIER") =
                      (\A q \in KeywordKinds : q[1] # TextOf(scanner.source))
               /\ scanner.tokens[1].lexeme = TextOf(scanner.source)

\* scan_tokens has returned from the source "class", and from "classy".
C16_Witness ==
    /\ scanner.status = "returned"
    /\ \/ /\ TextOf(scanner.source) = "class"
          /\ TypesOf(scanner.tokens) = <<"CLASS", "EOF">>
       \/ /\ TextOf(scanner.source) = "classy"
          /\ TypesOf(scanner.tokens) = <<"IDENTIFIER", "EOF">>

\* The kinds and the lexemes of the tokens t, in order.
KindsAndLexemes(t) == [i \in 1..Len(t) |-> <<t[i].type, t[i].lexeme>>]

\* What scan_tokens makes of the source: whether it returns or raises, and
\* the kinds and lexemes of its tokens.
Outcome(source) ==
    <<scan_tokens_loop(NewScanner(source)).status,
      KindsAndLexemes(scan_tokens_loop(NewScanner(source)).tokens)>>

\* The source with source[from:to] replaced by one space.
Blanked(source, from, to) ==
    SubSeq(source, 1, from) \o <<" ">> \o SubSeq(source, to + 1, Len(source))

\* C17: comments give no tokens.  A step of scan_tokens over a line comment
\* or a terminated block comment appends no token, and the source with
\* that comment replaced by one space scans to the same kinds and lexemes;
\* and a source that is only a line comment parses to the empty list.
C17_CommentsGiveNoTokens ==
    /\ [][(/\ scanner.status = "running"
           /\ scanner'.status = "running"
           /\ \/ IsLineComment(scanner.source, scanner.current, scanner'.current)
              \/ IsBlockComment(scanner.source, scanner.current, scanner'.current))
             => /\ scanner'.tokens = scanner.tokens
                /\ Outcome(Blanked(scanner.source, scanner.current, scanner'.current))
                       = Outcome(scanner.source)
         ]_vars
    /\ [](IsLineComment(scanner.source, 0, Len(scanner.source))
             => Pipeline(scanner.source) = <<>>)

\* scan_tokens has returned from 1 /* i should be ignored */ + 1 with the
\* tokens of 1 + 1.
C17_Witness ==
    /\ scanner.status = "returned"
    /\ scanner.source = SourceBlockComment
    /\ KindsAndLexemes(scanner.tokens) =
           <<<<"NUMBER", "1">>, <<"PLUS", "+">>, <<"NUMBER", "1">>, <<"EOF", "">>>>

\* The node of an operand that is the one token tok, a number or a name.
Operand(tok) ==
    IF tok.type = "IDENTIFIER" THEN Variable(tok) ELSE Literal(tok.literal)

Additive == {"PLUS", "MINUS"}

Multiplicative == {"STAR", "SLASH", "MOD"}

\* The tokens t are x op1 y op2 z ; with one-token operands.
IsTwoOperators(t) ==
    /\ Len(t) = 7
    /\ \A i \in {1, 3, 5} : t[i].type \in {"NUMBER", "IDENTIFIER"}
    /\ t[6].type = "SEMICOLON"
    /\ t[7].type = "EOF"

\* C18: the multiplicative operators bind tighter than the additive ones.
\* The statement x + y * z; parses to Binary(x, +, Binary(y, *, z)), and
\* x * y + z; to Binary(Binary(x, *, y), +, z), for + or - with * or / or %
\* and any operands.
C18_FactorBindsTighter ==
    LET t == parser.tokens IN
    (parser.status = "returned" /\ IsTwoOperators(t)) =>
        /\ (t[2].type \in Additive /\ t[4].type \in Multiplicative) =>
               parser.smts =
                   <<ExpressionStmt(Binary(Operand(t[1]), t[2],
                         Binary(Operand(t[3]), t[4], Operand(t[5]))))>>
        /\ (t[2].type \in Multiplicative /\ t[4].type \in Additive) =>
               parser.smts =
                   <<ExpressionStmt(Binary(Binary(Operand(t[1]), t[2],
                         Operand(t[3])), t[4], Operand(t[5])))>>

\* parse() has returned from the tokens of 1 + 2 * 3; with one statement
\* whose right operand is the product.
C18_Witness ==
    /\ parser.status = "returned"
    /\ KindsAndLexemes(parser.tokens) =
           <<<<"NUMBER", "1">>, <<"PLUS", "+">>, <<"NUMBER", "2">>,
             <<"STAR", "*">>, <<"NUMBER", "3">>, <<"SEMICOLON", ";">>,
             <<"EOF", "">>>>
    /\ Len(parser.smts) = 1
    /\ parser.smts[1][2][4] =
           Binary(Literal(Float(2, 1)), parser.tokens[4], Literal(Float(3, 1)))

\* C19: an assignment whose left side is not a variable is no ParserError
\* of its statement.  For the tokens of 1 = y; the parser reports the
\* invalid target, takes the = and the right side and drops them, and
\* returns the one statement ExpressionStmt(Literal(1)) with the cursor
\* after the semicolon.
C19_InvalidTargetIsDropped ==
    LET t == parser.tokens IN
    (/\ parser.status = "returned"
     /\ Len(t) = 5
     /\ t[1].type = "NUMBER"
     /\ t[2].type = "EQUAL"
     /\ t[3].type \in {"NUMBER", "IDENTIFIER"}
     /\ t[4].type = "SEMICOLON")
        => /\ parser.smts = <<ExpressionStmt(Literal(t[1].literal))>>
           /\ parser.current = 4
           /\ stdout = <<InvalidAssignmentReport(t[2])>>

\* parse() has returned from the tokens of 1 = 1; with the statement of 1.
C19_Witness ==
    /\ parser.status = "returned"
    /\ TypesOf(parser.tokens) = <<"NUMBER", "EQUAL", "NUMBER", "SEMICOLON", "EOF">>
    /\ parser.smts = <<ExpressionStmt(Literal(Float(1, 1)))>>
    /\ parser.current = 4
    /\ Len(stdout) = 1

\* The binding of the name n in the environment i: <<value>>, or <<>> when
\* the environment does not bind it.
Binding(envs, i, n) ==
    IF n \in DOMAIN envs[i].values THEN <<envs[i].values[n]>> ELSE <<>>

BoundNames(envs) == UNION {DOMAIN envs[i].values : i \in 1..Len(envs)}

\* C20: a call self.define(name, value) binds name to value in self, and
\* changes nothing else: no other name of self, no binding of any other
\* environment (an enclosing one that binds the same name included), no
\* enclosing link, and no environment is made or lost.
C20_DefineIsLocal ==
    [][call'.op = "define" =>
          LET old == interpreter.envs
              new == interpreter'.envs
              self == call'.self
              name == call'.name.lexeme
          IN  /\ Len(new) = Len(old)
              /\ Binding(new, self, name) = <<call'.value>>
              /\ \A i \in 1..Len(old) :
                     /\ new[i].enclosing = old[i].enclosing
                     /\ \A n \in BoundNames(old) \cup BoundNames(new) :
                            (i # self \/ n # name)
                                => Binding(new, i, n) = Binding(old, i, n)]_vars

\* define has just bound, in an environment that binds another name too, a
\* name that its enclosing environment binds to another value.
C20_Witness ==
    /\ call.op = "define"
    /\ LET envs == interpreter.envs
           self == call.self
           name == call.name.lexeme
       IN  /\ envs[self].enclosing # 0
           /\ Binding(envs, self, name) = <<call.value>>
           /\ Cardinality(DOMAIN envs[self].values) = 2
           /\ Binding(envs, envs[self].enclosing, name) \notin {<<>>, <<call.value>>}

\* The environments from e outwards, e first and the outermost last.
RECURSIVE Chain(_, _)
Chain(envs, e) ==
    IF e = 0 THEN <<>> ELSE <<e>> \o Chain(envs, envs[e].enclosing)

\* The innermost environment of the chain of e that binds the name n, and 0
\* when none does.
Innermost(envs, e, n) ==
    LET chain == Chain(envs, e)
        binding == {k \in 1..Len(chain) : n \in DOMAIN envs[chain[k]].values}
    IN  IF binding = {} THEN 0
        ELSE chain[CHOOSE k \in binding : \A j \in binding : k <= j]

\* C21: a call self.assign(name, value) sets the binding of name in the
\* innermost environment of the chain of self that binds it and changes no
\* other binding; when no environment of the chain binds the name it raises
\* UndefinedVariable and changes nothing.  Either way every environment
\* binds the names it bound before.
C21_AssignInnermost ==
    [][call'.op = "assign" =>
          LET old == interpreter.envs
              new == interpreter'.envs
              name == call'.name.lexeme
              target == Innermost(old, call'.self, name)
          IN  /\ Len(new) = Len(old)
              /\ \A i \in 1..Len(old) :
                     /\ new[i].enclosing = old[i].enclosing
                     /\ DOMAIN new[i].values = DOMAIN old[i].values
              /\ IF target = 0
                 THEN /\ call'.exc = "UndefinedVariable"
                      /\ new = old
                 ELSE /\ call'.exc = "none"
                      /\ Binding(new, target, name) = <<call'.value>>
                      /\ \A i \in 1..Len(old) :
                             \A n \in DOMAIN old[i].values :
                                 (i # target \/ n # name)
                                     => Binding(new, i, n) = Binding(old, i, n)]_vars

\* assign has just returned from an environment that does not bind the
\* name: the enclosing environment holds the value.
C21_Witness ==
    /\ call.op = "assign"
    /\ call.exc = "none"
    /\ LET envs == interpreter.envs
           self == call.self
           name == call.name.lexeme
       IN  /\ envs[self].enclosing # 0
           /\ Binding(envs, self, name) = <<>>
           /\ DOMAIN envs[self].values # {}
           /\ Binding(envs, envs[self].enclosing, name) = <<call.value>>

\* C22: a call self.get(name) changes no environment; it returns the value
\* of the innermost environment of the chain of self that binds the name,
\* and raises UndefinedVariable with the token name when none binds it.
C22_GetInnermost ==
    [][call'.op = "get" =>
          LET old == interpreter.envs
              name == call'.name.lexeme
              source == Innermost(old, call'.self, name)
          IN  /\ interpreter'.envs = old
              /\ IF source = 0
                 THEN /\ call'.exc = "UndefinedVariable"
                      /\ call'.token = call'.name
                 ELSE /\ call'.exc = "none"
                      /\ <<call'.result>> = Binding(old, source, name)]_vars

\* get has just returned the value of an inner binding that shadows
\* another value of the enclosing environment.
C22_Witness ==
    /\ call.op = "get"
    /\ call.exc = "none"
    /\ LET envs == interpreter.envs
           self == call.self
           name == call.name.lexeme
       IN  /\ envs[self].enclosing # 0
           /\ Binding(envs, self, name) = <<call.result>>
           /\ Binding(envs, envs[self].enclosing, name) \notin {<<>>, <<call.result>>}

\* nil and false are the falsy values.
Truthy(v) == v \notin {None, Bool(FALSE)}

\* The print of PrintProgram has evaluated the operand r last: it raised
\* the error of r, or printed the value of r.
EndsWith(r) ==
    IF r.raises
    THEN /\ call.exc = "LoxRunTimeError"
         /\ stdout = <<<<"error", "Division by zero.", "/">>>>
    ELSE /\ call.exc = "none"
         /\ stdout = <<Stringify(r.value)>>

\* interpret has ended on a PrintProgram whose expression is of the class
\* kind.
Ended(kind) ==
    /\ call.status # "running"
    /\ Len(call.stmts) = 3
    /\ call.stmts[3][1] = "Print"
    /\ call.stmts[3][2][1] = kind

\* C23: print l op r, with op one of and, or, evaluates l once; when l
\* decides (or with l truthy, and with l falsy) it prints the value of l and
\* r is not evaluated, so that r neither raises nor assigns; otherwise it
\* evaluates r and prints its value.  nil and false are the falsy values.
C23_LogicalShortCircuits ==
    Ended("Logical") =>
    \A l \in LeftOperands, op \in LogicalOperators, r \in RightOperands :
        (call.stmts = PrintProgram(Logical(l.expr, op, r.expr)))
            => LET short == IF op.type = "OR" THEN Truthy(l.value) ELSE ~Truthy(l.value)
               IN  /\ call.status = "returned"
                   /\ (Globals["x"] # Float(1, 1)) <=> (l.writes = "x")
                   /\ IF short
                      THEN /\ call.exc = "none"
                           /\ stdout = <<Stringify(l.value)>>
                           /\ Globals["y"] = Float(1, 1)
                      ELSE /\ EndsWith(r)
                           /\ (Globals["y"] # Float(1, 1)) <=> (r.writes = "y")

\* print false and 1 / 0; has printed False and has returned.
C23_Witness ==
    /\ call.stmts = PrintProgram(Logical(Literal(Bool(FALSE)), Tok("AND", "and"),
                                         Binary(Number(1), Tok("SLASH", "/"), Number(0))))
    /\ call.status = "returned"
    /\ call.exc = "none"
    /\ stdout = <<Str("False")>>

\* C24: print c ? a : b evaluates c once and then one of a and b: a when c
\* is truthy and b otherwise.  It prints the value of that branch, and the
\* other branch is not evaluated, so that it neither raises nor assigns.
C24_ConditionalRunsOneBranch ==
    Ended("Conditional") =>
    \A c \in LeftOperands, a \in RightOperands, b \in RightOperands :
        (call.stmts = PrintProgram(Conditional(c.expr, Tok("QUESTION", "?"), a.expr, b.expr)))
            => LET chosen == IF Truthy(c.value) THEN a ELSE b
               IN  /\ call.status = "returned"
                   /\ (Globals["x"] # Float(1, 1)) <=> (c.writes = "x")
                   /\ EndsWith(chosen)
                   /\ (Globals["y"] # Float(1, 1)) <=> (chosen.writes = "y")

\* print nil ? 1 / 0 : "a"; has printed a and has returned.
C24_Witness ==
    /\ call.stmts = PrintProgram(Conditional(Literal(None), Tok("QUESTION", "?"),
                                             Binary(Number(1), Tok("SLASH", "/"), Number(0)),
                                             Literal(Str("a"))))
    /\ call.status = "returned"
    /\ call.exc = "none"
    /\ stdout = <<Str("a")>>

\* interpret has ended on a statement list that is one print of a Binary.
EndedBinary ==
    /\ call.status # "running"
    /\ Len(call.stmts) = 1
    /\ call.stmts[1][1] = "Print"
    /\ call.stmts[1][2][1] = "Binary"

IsNumber(v) == TypeOf(v) = "float"

\* The one thing printed is the number n / d, for d > 0.
Printed(n, d) ==
    /\ call.exc = "none"
    /\ Len(stdout) = 1
    /\ IsNumber(stdout[1])
    /\ stdout[1][2] * d = n * stdout[1][3]

PrintedBool(b) ==
    /\ call.exc = "none"
    /\ stdout = <<Str(IF b THEN "True" ELSE "False")>>

\* The statement ended in the run-time error message, carrying the token op.
Failed(op, message) ==
    /\ call.exc = "LoxRunTimeError"
    /\ stdout = <<<<"error", message, op.lexeme>>>>

\* What print a op b gives for two numbers a and b and an operator op that
\* is not a division.
Arithmetic(a, op, b) ==
    LET x == a[2] * b[3]
        y == b[2] * a[3]
    IN  CASE op.type = "PLUS" -> Printed(x + y, a[3] * b[3])
          [] op.type = "MINUS" -> Printed(x - y, a[3] * b[3])
          [] op.type = "STAR" -> Printed(a[2] * b[2], a[3] * b[3])
          [] op.type = "LESS" -> PrintedBool(x < y)
          [] op.type = "LESS_EQUAL" -> PrintedBool(x <= y)
          [] op.type = "GREATER" -> PrintedBool(x > y)
          [] op.type = "GREATER_EQUAL" -> PrintedBool(x >= y)
          [] OTHER -> ~Failed(op, "Operands must be numbers.")

\* C25: print a op b with op one of - * / % < <= > >= is a run-time error
\* carrying op unless a and b are both numbers: a boolean, a string and nil
\* are refused, and two numbers are not.  print a + b prints the sum of two
\* numbers and the concatenation of two strings, and is a run-time error
\* carrying + for every other pair.
C25_BinaryChecksOperandTypes ==
    EndedBinary =>
    \A a \in BinaryOperands, b \in BinaryOperands :
        /\ \A op \in NumericOperators :
               call.stmts = BinaryProgram(a, op, b) =>
                   /\ call.status = "returned"
                   /\ IF IsNumber(a) /\ IsNumber(b)
                      THEN Arithmetic(a, op, b)
                      ELSE Failed(op, "Operands must be numbers.")
        /\ call.stmts = BinaryProgram(a, Tok("PLUS", "+"), b) =>
               /\ call.status = "returned"
               /\ IF IsNumber(a) /\ IsNumber(b)
                  THEN Arithmetic(a, Tok("PLUS", "+"), b)
                  ELSE IF TypeOf(a) = "str" /\ TypeOf(b) = "str"
                  THEN call.exc = "none" /\ stdout = <<Str(a[2] \o b[2])>>
                  ELSE Failed(Tok("PLUS", "+"),
                              "Operands must be two numbers or two strings.")

\* print true < 3; has ended in the error of its operator.
C25_Witness ==
    /\ call.stmts = BinaryProgram(Bool(TRUE), Tok("LESS", "<"), Float(3, 1))
    /\ call.status = "returned"
    /\ Failed(Tok("LESS", "<"), "Operands must be numbers.")

\* The printed number is the remainder of a by b: a - k * b for a whole k,
\* zero or of the sign of b, and nearer to zero than b.
PrintedRemainder(a, b) ==
    /\ call.exc = "none"
    /\ Len(stdout) = 1
    /\ IsNumber(stdout[1])
    /\ LET v == stdout[1]
           sign == IF b[2] > 0 THEN 1 ELSE 0 - 1
       IN  /\ \E k \in -12..12 :
                  v[2] * a[3] * b[3] = v[3] * (a[2] * b[3] - k * b[2] * a[3])
           /\ sign * v[2] >= 0
           /\ sign * v[2] * b[3] < sign * b[2] * v[3]

\* C26: print a / b and print a % b, for numbers a and b, end in the
\* division-by-zero error carrying the operator exactly when b is zero, and
\* otherwise print the quotient or the remainder; operands that are not
\* both numbers give the error of the operand types, a zero b included.
C26_DivisionByZero ==
    EndedBinary =>
    \A a \in BinaryOperands, b \in BinaryOperands :
        \A op \in {Tok("SLASH", "/"), Tok("MOD", "%")} :
            call.stmts = BinaryProgram(a, op, b) =>
                /\ call.status = "returned"
                /\ Failed(op, "Division by zero.")
                       <=> (IsNumber(a) /\ IsNumber(b) /\ b[2] = 0)
                /\ (IsNumber(a) /\ IsNumber(b) /\ b[2] # 0) =>
                       IF op.type = "SLASH"
                       THEN Printed(a[2] * b[3] * (IF b[2] < 0 THEN 0 - 1 ELSE 1),
                                    a[3] * b[2] * (IF b[2] < 0 THEN 0 - 1 ELSE 1))
                       ELSE PrintedRemainder(a, b)
                /\ ~(IsNumber(a) /\ IsNumber(b)) =>
                       Failed(op, "Operands must be numbers.")

\* print 3 % 0; has ended in the division by zero.
C26_Witness ==
    /\ call.stmts = BinaryProgram(Float(3, 1), Tok("MOD", "%"), Float(0, 1))
    /\ call.status = "returned"
    /\ Failed(Tok("MOD", "%"), "Division by zero.")

\* The kinds of the tokens that begin a statement.
StatementStarts == {"CLASS", "FUN", "VAR", "FOR", "IF", "WHILE", "PRINT", "RETURN"}

\* C27: synchronize moves the cursor forward by at least one token unless
\* it starts at EOF, never moves it past EOF, and leaves it at EOF, or just
\* after a semicolon, or at a token that begins a statement.
C27_SynchronizeStopsAtBoundary ==
    parser.status = "synchronized" =>
        LET t == parser.tokens
            eof == Len(t) - 1
            c == parser.current
        IN  /\ t[eof + 1].type = "EOF"
            /\ IF parser.start = eof THEN c = eof ELSE c > parser.start
            /\ c <= eof
            /\ \/ c = eof
               \/ t[c].type = "SEMICOLON"
               \/ t[c + 1].type \in StatementStarts

\* synchronize has begun at a semicolon that a print follows, and has
\* stopped at the print.
C27_Witness ==
    /\ parser.status = "synchronized"
    /\ parser.start = 1
    /\ parser.current = 2
    /\ parser.tokens[2].type = "SEMICOLON"
    /\ parser.tokens[3].type = "PRINT"
    /\ parser.tokens[1].type = "SEMICOLON"

Digits == <<"0", "1", "2", "3", "4", "5", "6", "7", "8", "9">>

IsDigit(source, i) ==
    i >= 1 /\ i <= Len(source) /\ \E d \in 1..10 : Digits[d] = source[i]

\* The end of the longest run of digits of the source that begins after the
\* first from characters.
RunEnd(source, from) ==
    CHOOSE to \in from..Len(source) :
        /\ \A i \in (from + 1)..to : IsDigit(source, i)
        /\ ~IsDigit(source, to + 1)

\* The whole number the digits source[from:to] write, a "." among them
\* passed over.
RECURSIVE Whole(_, _, _)
Whole(source, from, to) ==
    IF to <= from THEN 0
    ELSE IF source[to] = "." THEN Whole(source, from, to - 1)
    ELSE 10 * Whole(source, from, to - 1)
             + (CHOOSE d \in 0..9 : Digits[d + 1] = source[to])

RECURSIVE Power10(_)
Power10(k) == IF k = 0 THEN 1 ELSE 10 * Power10(k - 1)

C29_ParseAdvances ==
    /\ [][parser.status = "running" =>
             \/ /\ is_end(parser.tokens, parser.current)
                /\ parser'.status = "returned"
                /\ parser'.current = parser.current
             \/ /\ ~is_end(parser.tokens, parser.current)
                /\ parser'.status = "running"
                /\ parser'.current > parser.current
                /\ Len(parser'.smts) = Len(parser.smts) + 1
         ]_vars
    /\ [](parser.status # "idle" =>
             /\ parser.current \in 0..(Len(parser.tokens) - 1)
             /\ Len(parser.smts) <= parser.current)
    /\ [](/\ parser.status = "running"
           /\ parser.current = 0
           /\ parser.smts = <<>>
           /\ parser.tokens[1].type = "LEFT_BRACE"
             => \A c \in 1..(Len(parser.tokens) - 2) :
                    \E d \in {declaration(parser.tokens, c, <<>>)} :
                        /\ ~d.err
                        /\ d.cur > c
                        /\ d.cur <= Len(parser.tokens) - 1)

\* parse() has returned from the tokens of { 1 ; whose block ends at EOF:
\* one failed statement, and the cursor at EOF.
C29_Witness ==
    /\ parser.status = "returned"
    /\ TypesOf(parser.tokens) = <<"LEFT_BRACE", "NUMBER", "SEMICOLON", "EOF">>
    /\ parser.smts = <<None>>
    /\ parser.current = 3

\* C30: for two tokens a and b, a == b is true exactly when they are of
\* one kind and one lexeme, whatever their literals and lines, and a != b
\* is the negation of a == b.
C30_TokenEquality ==
    /\ "==" \in call.made =>
           (call.eq <=> (call.a.type = call.b.type /\ call.a.lexeme = call.b.lexeme))
    /\ call.made = {"==", "!="} => (call.ne <=> ~call.eq)

====
